---- MODULE Spec2Model ----
(***************************************************************************)
(* Retrieval engine of the fashion search backend                          *)
(* (backend/app/services/retriever.py): text and image search over the     *)
(* vector index, max-deduplication, attribute filtering, enrichment from   *)
(* the product store and weighted score fusion; the search-quality metrics *)
(* (backend/evaluation/metrics.py) and the evaluation run                  *)
(* (backend/evaluation/evaluate.py).                                       *)
(*                                                                         *)
(* Conventions.  A Python str is a sequence of one-character strings.      *)
(* A score is an integer number of thousandths (0.70 is 700, the           *)
(* ProductResult upper bound 1.01 is 1010); a fusion weight is an integer  *)
(* number of tenths, so weighted sums are exact.                           *)
(***************************************************************************)
EXTENDS Integers, Sequences, FiniteSets, TLC

VARIABLES
    pc,               \* position of the retrieval call: "idle", "text_loop", "convert", "done"
    op,               \* the operation called: "none", "text", "image", "merge"
    queries,          \* search_by_text: the `queries` argument
    top_k,            \* search_by_text / search_by_image: the `top_k` argument
    filters,          \* search_by_text / search_by_image: the `filters` argument
    score_threshold,  \* search_by_text / search_by_image: the `score_threshold` argument
    valid_queries,    \* search_by_text: the non-empty queries
    qi,               \* search_by_text: number of sub-queries issued so far
    all_results,      \* the dict product_id -> score, as the list of its items in insertion order
    text_results,     \* merge_results: the `text_results` argument
    image_results,    \* merge_results: the `image_results` argument
    text_weight,      \* merge_results: the `text_weight` argument, in tenths
    outcome,          \* "none" while the call runs, then "returned" or "raised"
    failure,          \* what raised: "none", "index", "store" or "validation"
    result,           \* the list returned by the call
    embed_calls,      \* inputs handed to the embedding service, in call order
    index_calls,      \* queries handed to the vector index, in call order
    store_calls,      \* number of get_products_by_ids calls made
    seen,             \* hits the vector index has returned during this call
    f_pc,             \* _filter_results: "ready" before the call, "done" after it
    f_results,        \* _filter_results: the `results` argument
    f_filters,        \* _filter_results: the `filters` argument
    f_out,            \* _filter_results: the returned list
    m_pc,             \* metrics: "unused", "ready" before the call, "done" after it
    m_fn,             \* metrics: the function called
    m_rankings,       \* metrics: the `rankings` argument
    m_ground_truth,   \* metrics: the `ground_truth` argument, a set of (key, ids) items
    m_k,              \* metrics: the `k` argument
    m_query_categories,   \* metrics: the `query_categories` argument
    m_out,            \* metrics: the returned number
    e_pc,             \* evaluation run: "unused", "load", "execute", "done"
    e_queries,        \* SearchEvaluator.queries: the benchmark queries
    e_i,              \* run_evaluation: number of queries the loop has gone through
    e_all_rankings,   \* run_evaluation: all_rankings
    e_per_query_results,  \* run_evaluation: per_query_results
    e_by_type,        \* run_evaluation: by_type
    e_report,         \* run_evaluation: the returned dictionary
    e_executed,       \* what _execute_query did for each query so far
    o_pc,             \* two orders: "unused", "ready", "first", "done"
    o_answers,        \* two orders: the index's answer to each sub-query
    o_top_k,          \* two orders: the `top_k` argument
    o_filters,        \* two orders: the `filters` argument
    o_order,          \* two orders: the order of the second call's sub-queries
    o_given,          \* two orders: what the call in the given order returned
    o_permuted,       \* two orders: what the call in the other order returned
    h_lru,            \* service handles: the lru_cache of get_embedding_service and of get_mongodb_service
    h_singleton,      \* service handles: EmbeddingService._instance and its _model
    h_built,          \* service handles: how many of each model/client have been constructed
    h_got,            \* service handles: what each caller's calls returned
    u_pc,             \* fusion of one product: "unused", "ready" before it, "done" after it
    u_text_weight,    \* fusion of one product: text_weight, a float
    u_text_score,     \* fusion of one product: text_score, a float
    u_image_score,    \* fusion of one product: image_score, a float
    u_final_score,    \* fusion of one product: final_score, a float
    u_outcome,        \* fusion of one product: "none", then "returned" or "raised" by ProductResult
    c_pc,             \* compare_to_baseline: "unused", "ready" before the call, "done" after it
    c_exists,         \* compare_to_baseline: whether the baseline file exists
    c_baseline,       \* compare_to_baseline: baseline["overall_metrics"], floats by metric
    c_current,        \* compare_to_baseline: current_results["overall_metrics"]
    c_status,         \* compare_to_baseline: the status printed for each metric
    c_regressions,    \* compare_to_baseline: the metrics of the list `regressions`
    c_return          \* compare_to_baseline: "none" before the return, then "True", "False" or "None"

callVars == <<queries, top_k, filters, score_threshold, text_results, image_results, text_weight>>

logVars == <<embed_calls, index_calls, store_calls, seen>>

mainVars == <<pc, op, callVars, valid_queries, qi, all_results, outcome, failure, result, logVars>>

filterVars == <<f_pc, f_results, f_filters, f_out>>

metricVars == <<m_pc, m_fn, m_rankings, m_ground_truth, m_k, m_query_categories, m_out>>

\* the variables of the functions and runs outside the retrieval engine
evalVars == <<e_pc, e_queries, e_i, e_all_rankings, e_per_query_results, e_by_type, e_report,
              e_executed>>

\* search_by_text called twice on the same sub-queries, in two orders
orderVars == <<o_pc, o_answers, o_top_k, o_filters, o_order, o_given, o_permuted>>

\* the process-wide service accessors
handleVars == <<h_lru, h_singleton, h_built, h_got>>

\* the fused score of one product in floats
fusionVars == <<u_pc, u_text_weight, u_text_score, u_image_score, u_final_score, u_outcome>>

compareVars == <<c_pc, c_exists, c_baseline, c_current, c_status, c_regressions, c_return>>

moreVars == <<orderVars, handleVars, fusionVars, compareVars>>

sideVars == <<filterVars, metricVars, evalVars, moreVars>>

vars == <<mainVars, sideVars>>

-----------------------------------------------------------------------------
(* Bounds of the model *)

MaxDescLen == 4     \* longest enumerated description
MaxValueLen == 2    \* longest enumerated filter value
MaxResults == 3     \* longest enumerated list handed to _filter_results
MaxQueries == 2     \* longest `queries` list of a text search
MaxTopK == 2        \* largest `top_k` of a search
MaxMergeLen == 2    \* longest input list of merge_results
MaxRankings == 2    \* longest `rankings` list handed to a metric
MaxRankLen == 2     \* longest ranking of such a list
MaxBenchmark == 2   \* largest number of benchmark queries of an evaluation run

-----------------------------------------------------------------------------
(* Strings *)

Min(a, b) == IF a <= b THEN a ELSE b

\* str.lower() on the characters the model uses
LowerChar(c) ==
    CASE c = "A" -> "a"
      [] c = "B" -> "b"
      [] c = "D" -> "d"
      [] c = "E" -> "e"
      [] c = "R" -> "r"
      [] OTHER -> c

Lower(s) == [i \in DOMAIN s |-> LowerChar(s[i])]

\* the regular expression class \w on the characters the model uses: every
\* character but the blank and the hyphen is a letter
IsWordChar(c) == c \notin {" ", "-"}

\* is there a \w character at position j of text (none outside the text)
IsWordAt(text, j) == j \in 1..Len(text) /\ IsWordChar(text[j])

\* the assertion \b holds in front of position k of text (k = Len+1: at the end)
AtBoundary(text, k) == IsWordAt(text, k - 1) # IsWordAt(text, k)

\* re.search(r'\b' + re.escape(literal) + r'\b', text) finds a match
ReSearchWord(literal, text) ==
    \E i \in 1..(Len(text) - Len(literal) + 1) :
        /\ AtBoundary(text, i)
        /\ SubSeq(text, i, i + Len(literal) - 1) = literal
        /\ AtBoundary(text, i + Len(literal))

\* " ".join(parts)
RECURSIVE JoinBlank(_)
JoinBlank(parts) ==
    IF Len(parts) = 0 THEN <<>>
    ELSE IF Len(parts) = 1 THEN parts[1]
    ELSE parts[1] \o <<" ">> \o JoinBlank(Tail(parts))

\* all strings over alphabet of length at most n
RECURSIVE StringsUpTo(_, _)
StringsUpTo(alphabet, n) ==
    IF n = 0 THEN {<<>>}
    ELSE LET shorter == StringsUpTo(alphabet, n - 1)
         IN  shorter \cup {Append(s, c) : s \in shorter, c \in alphabet}

\* all lists over S of length at most n
RECURSIVE ListsUpTo(_, _)
ListsUpTo(S, n) ==
    IF n = 0 THEN {<<>>}
    ELSE LET shorter == ListsUpTo(S, n - 1)
         IN  shorter \cup {Append(s, x) : s \in shorter, x \in S}

\* items[:n]
Take(items, n) == SubSeq(items, 1, Min(n, Len(items)))

-----------------------------------------------------------------------------
(* Values of the data model *)

\* Optional[Dict[str, str]] filters: None, or a dict from keys to values
NoFilters == [given |-> FALSE, dict |-> <<>>]

FiltersOf(d) == [given |-> TRUE, dict |-> d]

\* Optional[Dict[str, str]] categories of a product: None, or the dict's values
\* in the dict's order
NoCategories == [given |-> FALSE, vals |-> <<>>]

CategoriesOf(v) == [given |-> TRUE, vals |-> v]

\* `if filters`: neither None nor the empty dict
FiltersTruthy(flt) == flt.given /\ DOMAIN flt.dict # {}

\* `"color" in filters and filters["color"]`: the key is there and its value is
\* a non-empty string
ConstraintActive(flt, key) ==
    /\ key \in DOMAIN flt.dict
    /\ flt.dict[key] # <<>>

-----------------------------------------------------------------------------
(* RetrieverService._filter_results *)

\* res.description or "", lowered
TextContent(res) == Lower(res.description)

\* " ".join([str(v).lower() for v in (res.categories or {}).values()])
CatContent(res) ==
    JoinBlank([i \in DOMAIN res.categories.vals |-> Lower(res.categories.vals[i])])

\* a variant that tests for the value as a plain substring, without \b
SubstringConstraintMatches(res, value) ==
    LET lit == Lower(value)
        In(text) == \E i \in 1..(Len(text) - Len(lit) + 1) :
                        SubSeq(text, i, i + Len(lit) - 1) = lit
    IN  In(TextContent(res)) \/ In(CatContent(res))

\* one constraint of the filter: the pattern is searched in the description and
\* in the joined category values
ConstraintMatches(res, value) ==
    LET pattern == Lower(value)
    IN  \/ ReSearchWord(pattern, TextContent(res))
        \/ ReSearchWord(pattern, CatContent(res))

\* a variant that keeps a candidate as soon as one of the constraints matches
KeepAny(res, flt) ==
    \/ ~ConstraintActive(flt, "color") /\ ~ConstraintActive(flt, "category")
    \/ ConstraintActive(flt, "color") /\ ConstraintMatches(res, flt.dict["color"])
    \/ ConstraintActive(flt, "category") /\ ConstraintMatches(res, flt.dict["category"])

\* the loop body: keep starts TRUE, the colour check may clear it, the category
\* check runs only while keep holds and may clear it
Keep(res, flt) ==
    LET keepAfterColor ==
            IF ConstraintActive(flt, "color")
            THEN ConstraintMatches(res, flt.dict["color"])
            ELSE TRUE
    IN  IF keepAfterColor /\ ConstraintActive(flt, "category")
        THEN ConstraintMatches(res, flt.dict["category"])
        ELSE keepAfterColor

RECURSIVE FilterLoop(_, _)
FilterLoop(results, flt) ==
    IF results = <<>> THEN <<>>
    ELSE LET rest == FilterLoop(Tail(results), flt)
         IN  IF Keep(Head(results), flt)
             THEN <<Head(results)>> \o rest
             ELSE rest

\* _filter_results(results, filters)
FilterResults(results, flt) ==
    IF ~FiltersTruthy(flt) THEN results
    ELSE FilterLoop(results, flt)

-----------------------------------------------------------------------------
(* Program constants *)

ScoreMax == 1010            \* ProductResult.score: le=1.01
OverFetch == 5              \* search_limit = top_k * 5 under filters
DefaultScoreThreshold == 700    \* score_threshold: float = 0.70

-----------------------------------------------------------------------------
(* The product store and the vector index the engine reads *)

\* product ids with points in the vector index; "p3" has no record in the
\* product store (the index and the store have drifted apart)
IndexedProducts == {"p1", "p2", "p3"}

\* the products collection: "p1" is a red dress, "p2" is red but no dress
StoredProducts ==
    { [product_id |-> "p1", image_path |-> "images/p1.jpg", categories |-> NoCategories,
       description |-> <<"a", " ", "R", "e", "d", " ", "d", "r", "e", "s", "s">>],
      [product_id |-> "p2", image_path |-> "images/p2.jpg",
       categories |-> CategoriesOf(<< <<"t", "o", "p">> >>),
       description |-> <<"r", "e", "d", "-", "h", "o", "t">>] }

\* MongoDBService.get_products_by_ids: the documents whose product_id is in the
\* list (in no particular order, hence a set)
GetProductsByIds(product_ids) ==
    {p \in StoredProducts : \E i \in DOMAIN product_ids : product_ids[i] = p.product_id}

\* points of the collection by modality: insert_embeddings adds one text and one
\* image point per product under a fresh uuid; "p1" has been ingested twice on
\* the image side
TextPoints ==
    {[point |-> "t1", product_id |-> "p1"], [point |-> "t2", product_id |-> "p2"],
     [point |-> "t3", product_id |-> "p3"]}

ImagePoints ==
    {[point |-> "i1", product_id |-> "p1"], [point |-> "i2", product_id |-> "p2"],
     [point |-> "i3", product_id |-> "p3"], [point |-> "i4", product_id |-> "p1"]}

\* similarity scores the index may report: below both thresholds, between them
\* and above both; on the image side also one above the ProductResult bound
TextIndexScores == {600, 800, 900}

ImageIndexScores == {600, 800, 900, 1020}

\* hit lists of n distinct points, scores non-increasing
RECURSIVE HitListsOfLen(_, _, _)
HitListsOfLen(points, scores, n) ==
    IF n = 0 THEN {<<>>}
    ELSE { Append(t[1], [point |-> t[2].point, product_id |-> t[2].product_id, score |-> t[3]]) :
             t \in { u \in HitListsOfLen(points, scores, n - 1) \X points \X scores :
                       /\ \A i \in DOMAIN u[1] : u[1][i].point # u[2].point
                       /\ u[1] # <<>> => u[1][Len(u[1])].score >= u[3] } }

AllHitLists(points, scores) ==
    UNION {HitListsOfLen(points, scores, n) : n \in 0..Cardinality(points)}

TextHitLists == AllHitLists(TextPoints, TextIndexScores)

ImageHitLists == AllHitLists(ImagePoints, ImageIndexScores)

\* QdrantClient.query_points(...).points: some list of points of the asked
\* modality, best first, at most `limit` long, none scoring below the cutoff
QueryPoints(call) ==
    { h \in (IF call.modality = "text" THEN TextHitLists ELSE ImageHitLists) :
        /\ Len(h) <= call.limit
        /\ \A i \in DOMAIN h : h[i].score >= call.score_threshold }

-----------------------------------------------------------------------------
(* RetrieverService.search_by_text and search_by_image *)

IsSpace(c) == c = " "

\* q.strip()
RECURSIVE LStrip(_)
LStrip(q) == IF q # <<>> /\ IsSpace(Head(q)) THEN LStrip(Tail(q)) ELSE q

RECURSIVE RStrip(_)
RStrip(q) ==
    IF q # <<>> /\ IsSpace(q[Len(q)]) THEN RStrip(SubSeq(q, 1, Len(q) - 1)) ELSE q

Strip(q) == RStrip(LStrip(q))

\* a variant that drops only the empty string
NonEmptyQueries(qs) == SelectSeq(qs, LAMBDA q : q # <<>>)

\* [q for q in queries if q and q.strip()]
ValidQueries(qs) == SelectSeq(qs, LAMBDA q : q # <<>> /\ Strip(q) # <<>>)

\* a variant that over-fetches whether or not filters are given
SearchLimitAlwaysOverFetch(k, flt) == k * OverFetch

\* search_limit = top_k * 5 if filters else top_k
SearchLimit(k, flt) == IF FiltersTruthy(flt) THEN k * OverFetch ELSE k

\* a variant that does not hand the threshold to the index
TextQueryNoThreshold(limit, threshold) ==
    [modality |-> "text", limit |-> limit, score_threshold |-> 0]

\* the arguments of the text query_points call
TextQuery(limit, threshold) ==
    [modality |-> "text", limit |-> limit, score_threshold |-> threshold]

\* the arguments of the image query_points call
ImageQuery(limit, threshold) ==
    [modality |-> "image", limit |-> limit, score_threshold |-> threshold]

\* dict operations on the list of items
DictHas(d, pid) == \E i \in DOMAIN d : d[i].product_id = pid

DictGet(d, pid) == d[CHOOSE i \in DOMAIN d : d[i].product_id = pid].score

\* a variant that adds an item for every assignment, known key or not
DictSetAlwaysAppends(d, pid, score) == Append(d, [product_id |-> pid, score |-> score])

\* d[pid] = score: a new key goes last, a known key keeps its place
DictSet(d, pid, score) ==
    IF DictHas(d, pid)
    THEN [i \in DOMAIN d |-> IF d[i].product_id = pid
                              THEN [product_id |-> pid, score |-> score]
                              ELSE d[i]]
    ELSE Append(d, [product_id |-> pid, score |-> score])

\* a variant that stores every hit, whatever score is already there
MergeHitOverwrite(d, hit) == DictSet(d, hit.product_id, hit.score)

\* the body of the merge loop: keep the highest score of each product
MergeHit(d, hit) ==
    IF ~DictHas(d, hit.product_id) \/ hit.score > DictGet(d, hit.product_id)
    THEN DictSet(d, hit.product_id, hit.score)
    ELSE d

\* for result in search_results: ...
RECURSIVE MergeHits(_, _)
MergeHits(d, hits) ==
    IF hits = <<>> THEN d ELSE MergeHits(MergeHit(d, Head(hits)), Tail(hits))

\* {result.payload["product_id"]: (result.score, result.payload) for result in search_results}
RECURSIVE ImageDict(_, _)
ImageDict(d, hits) ==
    IF hits = <<>> THEN d
    ELSE ImageDict(DictSet(d, Head(hits).product_id, Head(hits).score), Tail(hits))

\* insertion of x behind every item whose score is at least x's
RECURSIVE InsertDesc(_, _)
InsertDesc(sorted, x) ==
    IF sorted = <<>> THEN <<x>>
    ELSE IF Head(sorted).score >= x.score
         THEN <<Head(sorted)>> \o InsertDesc(Tail(sorted), x)
         ELSE <<x>> \o sorted

RECURSIVE SortInto(_, _)
SortInto(sorted, items) ==
    IF items = <<>> THEN sorted
    ELSE SortInto(InsertDesc(sorted, Head(items)), Tail(items))

\* a variant that leaves the items in the order they came in
Unsorted(items) == items

\* sorted(items, key=score, reverse=True): stable, equal scores keep their order
SortByScoreDesc(items) == SortInto(<<>>, items)

\* the Field(ge=0.0, le=1.01) validation of ProductResult.score
ScoreValid(score) == score >= 0 /\ score <= ScoreMax

\* a variant that does not copy the categories of the record
ProductResultWithoutCategories(product, score) ==
    [product_id |-> product.product_id, description |-> product.description,
     image_path |-> product.image_path, score |-> score, categories |-> NoCategories]

\* the ProductResult built from a product record and a score
ProductResultOf(product, score) ==
    [product_id |-> product.product_id, description |-> product.description,
     image_path |-> product.image_path, score |-> score,
     categories |-> product.categories]

\* the loop that builds the results: items without a product record are skipped
RECURSIVE BuildResults(_, _)
BuildResults(sorted, products) ==
    IF sorted = <<>> THEN <<>>
    ELSE LET pid == Head(sorted).product_id
             rest == BuildResults(Tail(sorted), products)
         IN  IF \E p \in products : p.product_id = pid
             THEN <<ProductResultOf(CHOOSE p \in products : p.product_id = pid,
                                    Head(sorted).score)>> \o rest
             ELSE rest

\* _convert_to_product_results and the result loop of merge_results: raises when
\* a ProductResult fails its validation
ConvertToProductResults(sorted) ==
    LET product_ids == [i \in DOMAIN sorted |-> sorted[i].product_id]
        results == BuildResults(sorted, GetProductsByIds(product_ids))
    IN  [raised |-> \E i \in DOMAIN results : ~ScoreValid(results[i].score),
         results |-> results]

\* a variant that truncates before it filters
TruncateThenFilter(initial_results, flt, k) == FilterResults(Take(initial_results, k), flt)

\* _filter_results(initial_results, filters)[:top_k]
FilterAndTruncate(initial_results, flt, k) == Take(FilterResults(initial_results, flt), k)

-----------------------------------------------------------------------------
(* RetrieverService.merge_results *)

\* a variant that scores a product found by one modality on that modality alone
FusedScoreRenormalised(w, has_text, text_score, has_image, image_score) ==
    IF has_text /\ has_image THEN (w * text_score + (10 - w) * image_score) \div 10
    ELSE IF has_text THEN text_score ELSE image_score

\* a variant that weighs the text score by image_weight and the image score by
\* text_weight
FusedScoreSwappedWeights(w, has_text, text_score, has_image, image_score) ==
    LET ts == IF has_text THEN text_score ELSE 0
        is == IF has_image THEN image_score ELSE 0
    IN  ((10 - w) * ts + w * is) \div 10

\* final_score = text_weight * text_score + image_weight * image_score, with
\* text_dict.get(product_id, 0.0) and image_dict.get(product_id, 0.0)
FusedScore(w, has_text, text_score, has_image, image_score) ==
    LET image_weight == 10 - w
        ts == IF has_text THEN text_score ELSE 0
        is == IF has_image THEN image_score ELSE 0
    IN  (w * ts + image_weight * is) \div 10

\* {r.product_id: r.score for r in results}
RECURSIVE ScoreDict(_, _)
ScoreDict(d, results) ==
    IF results = <<>> THEN d
    ELSE ScoreDict(DictSet(d, Head(results).product_id, Head(results).score), Tail(results))

\* a variant that keeps only the products both lists hold
MergedScoresIntersection(order, text_dict, image_dict, w) ==
    SelectSeq([i \in DOMAIN order |->
                  [product_id |-> order[i],
                   score |-> (w * (IF DictHas(text_dict, order[i])
                                   THEN DictGet(text_dict, order[i]) ELSE 0)
                              + (10 - w) * (IF DictHas(image_dict, order[i])
                                            THEN DictGet(image_dict, order[i]) ELSE 0))
                             \div 10]],
              LAMBDA m : DictHas(text_dict, m.product_id) /\ DictHas(image_dict, m.product_id))

\* merged_scores for one iteration order of the set all_product_ids
MergedScores(order, text_dict, image_dict, w) ==
    [i \in DOMAIN order |->
        [product_id |-> order[i],
         score |-> FusedScore(w,
                              DictHas(text_dict, order[i]),
                              IF DictHas(text_dict, order[i]) THEN DictGet(text_dict, order[i]) ELSE 0,
                              DictHas(image_dict, order[i]),
                              IF DictHas(image_dict, order[i]) THEN DictGet(image_dict, order[i]) ELSE 0)]]

\* the orders in which a set may be iterated
Orderings(S) ==
    {o \in [1..Cardinality(S) -> S] : \A i, j \in DOMAIN o : i # j => o[i] # o[j]}

-----------------------------------------------------------------------------
(* evaluation/metrics.py.  A metric value is an exact fraction num/den with   *)
(* den > 0, so a mean is the true mean of its terms; the infinite sentinel of *)
(* calculate_average_rank is a value apart.                                   *)

Rat(n, d) == [num |-> n, den |-> d]

RatAdd(a, b) == Rat(a.num * b.den + b.num * a.den, a.den * b.den)

RECURSIVE RatSum(_)
RatSum(xs) == IF xs = <<>> THEN Rat(0, 1) ELSE RatAdd(Head(xs), RatSum(Tail(xs)))

\* np.mean(xs) of a non-empty list
Mean(xs) == Rat(RatSum(xs).num, RatSum(xs).den * Len(xs))

\* a float that is a number
Finite(x) == [inf |-> FALSE, num |-> x.num, den |-> x.den]

\* float('inf')
Infinite == [inf |-> TRUE, num |-> 0, den |-> 1]

Digits == <<"0", "1", "2", "3", "4", "5", "6", "7", "8", "9">>

\* str(query_id) of a one-digit index
Str(i) == Digits[i + 1]

\* ground_truth.get(str(query_id), set())
RelevantIds(ground_truth, query_id) ==
    IF \E item \in ground_truth : item.key = Str(query_id)
    THEN (CHOOSE item \in ground_truth : item.key = Str(query_id)).ids
    ELSE {}

\* for rank, product_id in enumerate(ranked_ids, start=1): the rank at which
\* the loop breaks, 0 when it runs to its end
RECURSIVE FirstRelevantRank(_, _, _)
FirstRelevantRank(ranked_ids, relevant_ids, rank) ==
    IF rank > Len(ranked_ids) THEN 0
    ELSE IF ranked_ids[rank] \in relevant_ids THEN rank
         ELSE FirstRelevantRank(ranked_ids, relevant_ids, rank + 1)

\* a variant that appends nothing for a ranking without a relevant id
RECURSIVE ReciprocalRanksSkippingMisses(_, _, _)
ReciprocalRanksSkippingMisses(rankings, ground_truth, query_id) ==
    IF query_id >= Len(rankings) THEN <<>>
    ELSE LET rank == FirstRelevantRank(rankings[query_id + 1],
                                       RelevantIds(ground_truth, query_id), 1)
         IN  (IF rank = 0 THEN <<>> ELSE <<Rat(1, rank)>>)
               \o ReciprocalRanksSkippingMisses(rankings, ground_truth, query_id + 1)

\* reciprocal_ranks, from the ranking of index query_id on
RECURSIVE ReciprocalRanks(_, _, _)
ReciprocalRanks(rankings, ground_truth, query_id) ==
    IF query_id >= Len(rankings) THEN <<>>
    ELSE LET rank == FirstRelevantRank(rankings[query_id + 1],
                                       RelevantIds(ground_truth, query_id), 1)
         IN  <<IF rank = 0 THEN Rat(0, 1) ELSE Rat(1, rank)>>
               \o ReciprocalRanks(rankings, ground_truth, query_id + 1)

calculate_mrr(rankings, ground_truth) ==
    LET reciprocal_ranks == ReciprocalRanks(rankings, ground_truth, 0)
    IN  IF reciprocal_ranks # <<>> THEN Finite(Mean(reciprocal_ranks)) ELSE Finite(Rat(0, 1))

\* sum(1 for pid in top_k if pid in relevant_ids)
NumRelevant(top, relevant_ids) == Len(SelectSeq(top, LAMBDA pid : pid \in relevant_ids))

\* a variant that divides by the number of entries the cut returned
RECURSIVE PrecisionsOverReturned(_, _, _, _)
PrecisionsOverReturned(rankings, ground_truth, k, query_id) ==
    IF query_id >= Len(rankings) THEN <<>>
    ELSE LET top == Take(rankings[query_id + 1], k)
         IN  <<IF top = <<>> THEN Rat(0, 1)
               ELSE Rat(NumRelevant(top, RelevantIds(ground_truth, query_id)), Len(top))>>
               \o PrecisionsOverReturned(rankings, ground_truth, k, query_id + 1)

\* precisions, from the ranking of index query_id on
RECURSIVE Precisions(_, _, _, _)
Precisions(rankings, ground_truth, k, query_id) ==
    IF query_id >= Len(rankings) THEN <<>>
    ELSE LET top == Take(rankings[query_id + 1], k)
         IN  <<Rat(NumRelevant(top, RelevantIds(ground_truth, query_id)), k)>>
               \o Precisions(rankings, ground_truth, k, query_id + 1)

calculate_precision_at_k(rankings, ground_truth, k) ==
    LET precisions == Precisions(rankings, ground_truth, k, 0)
    IN  IF precisions # <<>> THEN Finite(Mean(precisions)) ELSE Finite(Rat(0, 1))

\* a variant that counts a ranking without relevant ids as recall 0
RECURSIVE RecallsCountingEmpty(_, _, _, _)
RecallsCountingEmpty(rankings, ground_truth, k, query_id) ==
    IF query_id >= Len(rankings) THEN <<>>
    ELSE LET relevant_ids == RelevantIds(ground_truth, query_id)
             top == Take(rankings[query_id + 1], k)
         IN  <<IF relevant_ids = {} THEN Rat(0, 1)
               ELSE Rat(NumRelevant(top, relevant_ids), Cardinality(relevant_ids))>>
               \o RecallsCountingEmpty(rankings, ground_truth, k, query_id + 1)

\* recalls, from the ranking of index query_id on
RECURSIVE Recalls(_, _, _, _)
Recalls(rankings, ground_truth, k, query_id) ==
    IF query_id >= Len(rankings) THEN <<>>
    ELSE LET relevant_ids == RelevantIds(ground_truth, query_id)
             top == Take(rankings[query_id + 1], k)
         IN  (IF relevant_ids = {} THEN <<>>
              ELSE <<Rat(NumRelevant(top, relevant_ids), Cardinality(relevant_ids))>>)
               \o Recalls(rankings, ground_truth, k, query_id + 1)

calculate_recall_at_k(rankings, ground_truth, k) ==
    LET recalls == Recalls(rankings, ground_truth, k, 0)
    IN  IF recalls # <<>> THEN Finite(Mean(recalls)) ELSE Finite(Rat(0, 1))

\* ranks, from the ranking of index query_id on
RECURSIVE Ranks(_, _, _)
Ranks(rankings, ground_truth, query_id) ==
    IF query_id >= Len(rankings) THEN <<>>
    ELSE LET rank == FirstRelevantRank(rankings[query_id + 1],
                                       RelevantIds(ground_truth, query_id), 1)
         IN  (IF rank = 0 THEN <<>> ELSE <<Rat(rank, 1)>>)
               \o Ranks(rankings, ground_truth, query_id + 1)

\* a variant that answers 0 when no ranking holds a relevant id
AverageRankZeroWhenNone(rankings, ground_truth) ==
    IF Ranks(rankings, ground_truth, 0) # <<>>
    THEN Finite(Mean(Ranks(rankings, ground_truth, 0)))
    ELSE Finite(Rat(0, 1))

calculate_average_rank(rankings, ground_truth) ==
    LET ranks == Ranks(rankings, ground_truth, 0)
    IN  IF ranks # <<>> THEN Finite(Mean(ranks)) ELSE Infinite

\* product_categories.get(top_product): the category, or None
NoCategory == [given |-> FALSE, name |-> ""]

CategoryOf(product_categories, top_product) ==
    IF \E item \in product_categories : item.key = top_product
    THEN [given |-> TRUE,
          name |-> (CHOOSE item \in product_categories : item.key = top_product).category]
    ELSE NoCategory

\* matches and total after the pairs of zip(rankings, query_categories) from
\* position i on
RECURSIVE CategoryCounts(_, _, _, _, _)
CategoryCounts(rankings, query_categories, product_categories, i, counts) ==
    IF i > Len(rankings) \/ i > Len(query_categories) THEN counts
    ELSE LET ranked_ids == rankings[i]
             expected_category == query_categories[i]
         IN  IF expected_category = "" \/ ranked_ids = <<>>
             THEN CategoryCounts(rankings, query_categories, product_categories, i + 1, counts)
             ELSE LET top_category == CategoryOf(product_categories, ranked_ids[1])
                      matched == top_category.given /\ top_category.name = expected_category
                  IN  CategoryCounts(rankings, query_categories, product_categories, i + 1,
                                     [matches |-> counts.matches + (IF matched THEN 1 ELSE 0),
                                      total |-> counts.total + 1])

calculate_category_accuracy(rankings, query_categories, product_categories) ==
    LET counts == CategoryCounts(rankings, query_categories, product_categories, 1,
                                 [matches |-> 0, total |-> 0])
    IN  IF counts.total > 0 THEN Finite(Rat(counts.matches, counts.total))
        ELSE Finite(Rat(0, 1))

\* MetricsCalculator.calculate_all without categories
calculate_all(rankings, ground_truth) ==
    [mrr |-> calculate_mrr(rankings, ground_truth),
     precision_at_1 |-> calculate_precision_at_k(rankings, ground_truth, 1),
     precision_at_5 |-> calculate_precision_at_k(rankings, ground_truth, 5),
     precision_at_10 |-> calculate_precision_at_k(rankings, ground_truth, 10),
     recall_at_5 |-> calculate_recall_at_k(rankings, ground_truth, 5),
     recall_at_10 |-> calculate_recall_at_k(rankings, ground_truth, 10),
     recall_at_20 |-> calculate_recall_at_k(rankings, ground_truth, 20),
     average_rank |-> calculate_average_rank(rankings, ground_truth)]

-----------------------------------------------------------------------------
(* evaluation/evaluate.py: SearchEvaluator *)

\* by_type = {"text": [], "image": [], "combined": []}
QueryTypes == {"text", "image", "combined"}

NoRankingsByType == [t \in QueryTypes |-> <<>>]

NoReport == [given |-> FALSE]

EvalUnused ==
    /\ e_pc = "unused"
    /\ e_queries = <<>>
    /\ e_i = 0
    /\ e_all_rankings = <<>>
    /\ e_per_query_results = <<>>
    /\ e_by_type = NoRankingsByType
    /\ e_report = NoReport
    /\ e_executed = <<>>

\* the exception _execute_query raises for a query, when it raises: the type is
\* none of the three, the image file is missing, or the retrieval call fails
RaisedBy(query) ==
    IF query.type \notin QueryTypes THEN "Unknown query type"
    ELSE IF query.type \in {"image", "combined"} /\ ~query.image_exists
         THEN "Image not found"
         ELSE "retrieval failure"

\* _execute_query may reach its retrieval calls and return their result
MayReturn(query) ==
    /\ query.type \in QueryTypes
    /\ query.type \in {"image", "combined"} => query.image_exists

\* the entry of per_query_results for a query that was executed
QueryResult(query, ranked_ids) ==
    [query_id |-> query.query_id,
     type |-> query.type,
     expected |-> query.expected_product_ids,
     top_result |-> IF ranked_ids # <<>> THEN <<ranked_ids[1]>> ELSE <<>>,
     correct |-> IF ranked_ids # <<>> THEN ranked_ids[1] \in query.expected_product_ids
                 ELSE FALSE,
     num_results |-> Len(ranked_ids),
     has_error |-> FALSE,
     error |-> ""]

\* the entry of per_query_results for a query whose execution raised: it has
\* the keys query_id, type and error only
QueryError(query, message) ==
    [query_id |-> query.query_id,
     type |-> query.type,
     expected |-> {},
     top_result |-> <<>>,
     correct |-> FALSE,
     num_results |-> 0,
     has_error |-> TRUE,
     error |-> message]

\* {str(i): set(ground_truth[q["query_id"]]["primary_positives"]) for i, q in enumerate(qs)}
GroundTruthFor(qs) ==
    {[key |-> Str(i - 1), ids |-> qs[i].primary_positives] : i \in DOMAIN qs}

\* type_metrics: for each type with rankings, the metrics of its rankings
\* against the ground truth of the queries of that type
TypeMetrics(qs, by_type) ==
    [t \in QueryTypes |->
        IF by_type[t] = <<>> THEN [given |-> FALSE, metrics |-> calculate_all(<<>>, {})]
        ELSE [given |-> TRUE,
              metrics |-> calculate_all(by_type[t],
                                        GroundTruthFor(SelectSeq(qs, LAMBDA q : q.type = t)))]]

\* the dictionary run_evaluation returns
Report(qs, all_rankings, per_query_results, by_type) ==
    [given |-> TRUE,
     num_queries |-> Len(qs),
     overall_metrics |-> calculate_all(all_rankings, GroundTruthFor(qs)),
     by_type_metrics |-> TypeMetrics(qs, by_type),
     per_query_results |-> per_query_results,
     summary |->
        [total_correct |-> Len(SelectSeq(per_query_results, LAMBDA r : r.correct)),
         total_errors |-> Len(SelectSeq(per_query_results, LAMBDA r : r.has_error))]]

-----------------------------------------------------------------------------
(* Inputs of the retrieval calls *)

QueryStrings == {<<>>, <<" ">>, <<"a">>, <<" ", "b">>}

\* the index answers equal queries equally, and each answer here is drawn on its
\* own: the queries of a call that reach the index are pairwise distinct
QueryLists ==
    { qs \in ListsUpTo(QueryStrings, MaxQueries) :
        \A i, j \in DOMAIN qs : (i # j /\ qs[i] = qs[j]) => Strip(qs[i]) = <<>> }

Thresholds == {DefaultScoreThreshold, 850}

SearchFilters ==
    { NoFilters,
      FiltersOf(<<>>),
      FiltersOf([k \in {"color"} |-> <<>>]),
      FiltersOf([k \in {"color"} |-> <<"r", "e", "d">>]),
      FiltersOf([k \in {"color", "category"} |->
                    IF k = "color" THEN <<"R", "e", "d">> ELSE <<"d", "r", "e", "s", "s">>]) }

\* scores of the ProductResult lists handed to merge_results
MergeScores == {500, 900}

\* fusion weights, in tenths
TextWeights == {0, 3, 5, 10}

\* lists of results as a search returns them: pairwise distinct products, best
\* score first
MergeLists ==
    { l \in ListsUpTo({[product_id |-> p, score |-> s] : p \in IndexedProducts, s \in MergeScores},
                      MaxMergeLen) :
        /\ \A i, j \in DOMAIN l : i # j => l[i].product_id # l[j].product_id
        /\ \A i, j \in DOMAIN l : i < j => l[i].score >= l[j].score }

-----------------------------------------------------------------------------
(* Actions of the retrieval engine *)

MainIdle ==
    /\ pc = "idle"
    /\ op = "none"
    /\ queries = <<>>
    /\ top_k = 1
    /\ filters = NoFilters
    /\ score_threshold = DefaultScoreThreshold
    /\ valid_queries = <<>>
    /\ qi = 0
    /\ all_results = <<>>
    /\ text_results = <<>>
    /\ image_results = <<>>
    /\ text_weight = 5
    /\ outcome = "none"
    /\ failure = "none"
    /\ result = <<>>
    /\ embed_calls = <<>>
    /\ index_calls = <<>>
    /\ store_calls = 0
    /\ seen = {}

FilterUnused ==
    /\ f_pc = "unused"
    /\ f_results = <<>>
    /\ f_filters = NoFilters
    /\ f_out = <<>>

\* search_by_text up to the loop: the early return on no valid query
CallSearchByText ==
    /\ pc = "idle"
    /\ \E qs \in QueryLists, k \in 1..MaxTopK, flt \in SearchFilters, t \in Thresholds :
        /\ queries' = qs
        /\ top_k' = k
        /\ filters' = flt
        /\ score_threshold' = t
        /\ valid_queries' = ValidQueries(qs)
        /\ IF ValidQueries(qs) = <<>>
           THEN pc' = "done" /\ outcome' = "returned"
           ELSE pc' = "text_loop" /\ outcome' = "none"
    /\ op' = "text"
    /\ UNCHANGED <<qi, all_results, failure, result, text_results, image_results, text_weight,
                   logVars, sideVars>>

\* one iteration of `for query in valid_queries`: encode, query the index, merge
TextSubQuery ==
    /\ pc = "text_loop"
    /\ LET query == valid_queries[qi + 1]
           call == TextQuery(SearchLimit(top_k, filters), score_threshold)
       IN  /\ embed_calls' = Append(embed_calls, [kind |-> "text", input |-> query])
           /\ index_calls' = Append(index_calls, call)
           /\ \E search_results \in QueryPoints(call) :
                /\ all_results' = MergeHits(all_results, search_results)
                /\ seen' = seen \cup {[product_id |-> search_results[i].product_id,
                                       score |-> search_results[i].score] :
                                        i \in DOMAIN search_results}
    /\ qi' = qi + 1
    /\ pc' = IF qi + 1 = Len(valid_queries) THEN "convert" ELSE "text_loop"
    /\ UNCHANGED <<op, callVars, valid_queries, outcome, failure, result, store_calls,
                   sideVars>>

\* search_by_image up to the conversion: encode, query the index, build the dict
CallSearchByImage ==
    /\ pc = "idle"
    /\ \E k \in 1..MaxTopK, flt \in SearchFilters, t \in Thresholds :
        LET call == ImageQuery(SearchLimit(k, flt), t)
        IN  /\ top_k' = k
            /\ filters' = flt
            /\ score_threshold' = t
            /\ index_calls' = Append(index_calls, call)
            /\ \E search_results \in QueryPoints(call) :
                 /\ all_results' = ImageDict(<<>>, search_results)
                 /\ seen' = seen \cup {[product_id |-> search_results[i].product_id,
                                        score |-> search_results[i].score] :
                                         i \in DOMAIN search_results}
    /\ embed_calls' = Append(embed_calls, [kind |-> "image", input |-> <<>>])
    /\ op' = "image"
    /\ pc' = "convert"
    /\ UNCHANGED <<queries, valid_queries, qi, text_results, image_results, text_weight,
                   outcome, failure, result, store_calls, sideVars>>

\* the tail of both searches: convert, filter and truncate if filters are given
ConvertAndReturn ==
    /\ pc = "convert"
    /\ LET converted == ConvertToProductResults(SortByScoreDesc(all_results))
       IN  IF converted.raised
           THEN outcome' = "raised" /\ failure' = "validation" /\ result' = <<>>
           ELSE /\ outcome' = "returned"
                /\ failure' = "none"
                /\ result' = IF FiltersTruthy(filters)
                             THEN FilterAndTruncate(converted.results, filters, top_k)
                             ELSE converted.results
    /\ store_calls' = store_calls + 1
    /\ pc' = "done"
    /\ UNCHANGED <<op, callVars, valid_queries, qi, all_results, embed_calls, index_calls,
                   seen, sideVars>>

\* merge_results
CallMergeResults ==
    /\ pc = "idle"
    /\ \E tr \in MergeLists, ir \in MergeLists, w \in TextWeights :
        /\ text_results' = tr
        /\ image_results' = ir
        /\ text_weight' = w
        /\ IF tr = <<>> /\ ir = <<>>
           THEN /\ outcome' = "returned"
                /\ failure' = "none"
                /\ result' = <<>>
                /\ store_calls' = store_calls
           ELSE LET text_dict == ScoreDict(<<>>, tr)
                    image_dict == ScoreDict(<<>>, ir)
                    all_product_ids == {text_dict[i].product_id : i \in DOMAIN text_dict}
                                         \cup {image_dict[i].product_id : i \in DOMAIN image_dict}
                IN  \E order \in Orderings(all_product_ids) :
                      LET merged_scores ==
                              SortByScoreDesc(MergedScores(order, text_dict, image_dict, w))
                          converted == ConvertToProductResults(merged_scores)
                      IN  /\ store_calls' = store_calls + 1
                          /\ IF converted.raised
                             THEN /\ outcome' = "raised"
                                  /\ failure' = "validation"
                                  /\ result' = <<>>
                             ELSE /\ outcome' = "returned"
                                  /\ failure' = "none"
                                  /\ result' = converted.results
    /\ op' = "merge"
    /\ pc' = "done"
    /\ UNCHANGED <<queries, top_k, filters, score_threshold, valid_queries, qi, all_results,
                   embed_calls, index_calls, seen, sideVars>>

\* a variant of the failing iteration that swallows the exception and goes on
\* with the next query
TextSubQuerySkipsFailure ==
    /\ pc = "text_loop"
    /\ embed_calls' = Append(embed_calls, [kind |-> "text", input |-> valid_queries[qi + 1]])
    /\ index_calls' = Append(index_calls,
                             TextQuery(SearchLimit(top_k, filters), score_threshold))
    /\ failure' = "index"
    /\ qi' = qi + 1
    /\ pc' = IF qi + 1 = Len(valid_queries) THEN "convert" ELSE "text_loop"
    /\ UNCHANGED <<op, callVars, valid_queries, all_results, outcome, result, store_calls,
                   seen, sideVars>>

\* one iteration of `for query in valid_queries` in which query_points raises:
\* nothing catches the exception, it leaves search_by_text
TextSubQueryFails ==
    /\ pc = "text_loop"
    /\ embed_calls' = Append(embed_calls, [kind |-> "text", input |-> valid_queries[qi + 1]])
    /\ index_calls' = Append(index_calls,
                             TextQuery(SearchLimit(top_k, filters), score_threshold))
    /\ qi' = qi + 1
    /\ outcome' = "raised"
    /\ failure' = "index"
    /\ result' = <<>>
    /\ pc' = "done"
    /\ UNCHANGED <<op, callVars, valid_queries, all_results, store_calls, seen, sideVars>>

\* search_by_image in which query_points raises
SearchByImageIndexFails ==
    /\ pc = "idle"
    /\ \E k \in 1..MaxTopK, flt \in SearchFilters, t \in Thresholds :
        /\ top_k' = k
        /\ filters' = flt
        /\ score_threshold' = t
        /\ index_calls' = Append(index_calls, ImageQuery(SearchLimit(k, flt), t))
    /\ embed_calls' = Append(embed_calls, [kind |-> "image", input |-> <<>>])
    /\ op' = "image"
    /\ outcome' = "raised"
    /\ failure' = "index"
    /\ result' = <<>>
    /\ pc' = "done"
    /\ UNCHANGED <<queries, valid_queries, qi, all_results, text_results, image_results,
                   text_weight, store_calls, seen, sideVars>>

\* the tail of both searches in which get_products_by_ids raises
ConvertStoreFails ==
    /\ pc = "convert"
    /\ store_calls' = store_calls + 1
    /\ outcome' = "raised"
    /\ failure' = "store"
    /\ result' = <<>>
    /\ pc' = "done"
    /\ UNCHANGED <<op, callVars, valid_queries, qi, all_results, embed_calls, index_calls,
                   seen, sideVars>>

\* merge_results in which get_products_by_ids raises: the store is reached only
\* past the early return
MergeResultsStoreFails ==
    /\ pc = "idle"
    /\ \E tr \in MergeLists, ir \in MergeLists, w \in TextWeights :
        /\ ~(tr = <<>> /\ ir = <<>>)
        /\ text_results' = tr
        /\ image_results' = ir
        /\ text_weight' = w
    /\ store_calls' = store_calls + 1
    /\ op' = "merge"
    /\ outcome' = "raised"
    /\ failure' = "store"
    /\ result' = <<>>
    /\ pc' = "done"
    /\ UNCHANGED <<queries, top_k, filters, score_threshold, valid_queries, qi, all_results,
                   embed_calls, index_calls, seen, sideVars>>

MetricsUnused ==
    /\ m_pc = "unused"
    /\ m_fn = "none"
    /\ m_rankings = <<>>
    /\ m_ground_truth = {}
    /\ m_k = 1
    /\ m_query_categories = <<>>
    /\ m_out = Finite(Rat(0, 1))

(* Python floats: IEEE-754 binary64 with round-to-nearest-even; the numbers
   of the model stay far from overflow and underflow *)

\* natural numbers of any size as their binary digits, lowest digit first and
\* no zero digit at the top; <<>> is zero
Bit(a, i) == IF i \in DOMAIN a THEN a[i] ELSE 0

Trim(a) ==
    IF \A i \in DOMAIN a : a[i] = 0 THEN <<>>
    ELSE SubSeq(a, 1, CHOOSE i \in DOMAIN a : a[i] = 1 /\ \A j \in (i + 1)..Len(a) : a[j] = 0)

RECURSIVE BitsOf(_)
BitsOf(n) == IF n = 0 THEN <<>> ELSE <<n % 2>> \o BitsOf(n \div 2)

\* the arithmetic works on groups of twelve binary digits
LimbBase == 2^12

LimbCount(a) == (Len(a) + 11) \div 12

LimbOf(a, k) ==
    LET digit(j) == Bit(a, 12 * (k - 1) + j) * 2^(j - 1)
    IN  digit(1) + digit(2) + digit(3) + digit(4) + digit(5) + digit(6)
        + digit(7) + digit(8) + digit(9) + digit(10) + digit(11) + digit(12)

FromLimbs(limbs) ==
    Trim([i \in 1..(12 * Len(limbs)) |->
            (limbs[((i - 1) \div 12) + 1] \div 2^((i - 1) % 12)) % 2])

BAdd(a, b) ==
    LET n == (IF Len(a) > Len(b) THEN LimbCount(a) ELSE LimbCount(b)) + 1
        sum[k \in 0..n] ==
            IF k = 0 THEN 0
            ELSE LimbOf(a, k) + LimbOf(b, k) + (sum[k - 1] \div LimbBase)
    IN  FromLimbs([k \in 1..n |-> sum[k] % LimbBase])

\* a - b for a >= b
BSub(a, b) ==
    LET n == LimbCount(a)
        diff[k \in 0..n] ==
            IF k = 0 THEN LimbBase
            ELSE LimbBase + LimbOf(a, k) - LimbOf(b, k)
                 - (IF diff[k - 1] < LimbBase THEN 1 ELSE 0)
    IN  FromLimbs([k \in 1..n |-> diff[k] % LimbBase])

BLess(a, b) ==
    \/ Len(a) < Len(b)
    \/ /\ Len(a) = Len(b)
       /\ \E i \in DOMAIN a : a[i] < b[i] /\ \A j \in (i + 1)..Len(a) : a[j] = b[j]

\* a * 2^n
BShl(a, n) == IF a = <<>> THEN <<>> ELSE [i \in 1..n |-> 0] \o a

RECURSIVE ColumnSum(_, _, _, _)
ColumnSum(a, b, k, i) ==
    IF i = 0 THEN 0
    ELSE LimbOf(a, i) * LimbOf(b, k + 1 - i) + ColumnSum(a, b, k, i - 1)

BMul(a, b) ==
    LET n == LimbCount(a) + LimbCount(b)
        col[k \in 0..n] ==
            IF k = 0 THEN 0
            ELSE ColumnSum(a, b, k, IF k < LimbCount(a) THEN k ELSE LimbCount(a))
                 + (col[k - 1] \div LimbBase)
    IN  FromLimbs([k \in 1..n |-> col[k] % LimbBase])

\* quotient and remainder of a by a small d > 0
BDivMod(a, d) ==
    LET n == LimbCount(a)
        rest[k \in 1..(n + 1)] ==
            IF k = n + 1 THEN 0
            ELSE (rest[k + 1] % d) * LimbBase + LimbOf(a, k)
    IN  [q |-> FromLimbs([k \in 1..n |-> rest[k] \div d]),
         r |-> IF n = 0 THEN 0 ELSE rest[1] % d]

\* a float is m * 2^e, negated if neg; m is odd or zero, so that equal numbers
\* are equal records
Float(neg, m, e) ==
    IF m = <<>> THEN [neg |-> FALSE, m |-> <<>>, e |-> 0]
    ELSE LET low == CHOOSE i \in DOMAIN m : m[i] = 1 /\ \A j \in 1..(i - 1) : m[j] = 0
         IN  [neg |-> neg, m |-> SubSeq(m, low, Len(m)), e |-> e + low - 1]

\* significant binary digits of a Python float
Precision == 53

\* m * 2^e rounded to the nearest float, to the even one in a tie; `inexact`
\* says that the exact number lies a little above m * 2^e
RoundToFloat(neg, m, e, inexact) ==
    IF Len(m) <= Precision THEN Float(neg, m, e)
    ELSE LET drop == Len(m) - Precision
             kept == SubSeq(m, drop + 1, Len(m))
             above == inexact \/ \E i \in 1..(drop - 1) : m[i] = 1
             up == m[drop] = 1 /\ (above \/ kept[1] = 1)
         IN  Float(neg, IF up THEN BAdd(kept, <<1>>) ELSE kept, e + drop)

\* the magnitudes of two floats as multiples of one power of two
Aligned(x, y) ==
    LET e == IF x.e < y.e THEN x.e ELSE y.e
    IN  [x |-> BShl(x.m, x.e - e), y |-> BShl(y.m, y.e - e), e |-> e]

\* |x| < |y|
MagLess(x, y) == LET a == Aligned(x, y) IN BLess(a.x, a.y)

\* x < y
FLess(x, y) ==
    IF x.neg /\ ~y.neg THEN TRUE
    ELSE IF ~x.neg /\ y.neg THEN FALSE
    ELSE IF x.neg THEN MagLess(y, x) ELSE MagLess(x, y)

FNeg(x) == IF x.m = <<>> THEN x ELSE [x EXCEPT !.neg = ~x.neg]

\* x + y
FAdd(x, y) ==
    LET a == Aligned(x, y)
    IN  IF x.neg = y.neg THEN RoundToFloat(x.neg, BAdd(a.x, a.y), a.e, FALSE)
        ELSE IF BLess(a.x, a.y) THEN RoundToFloat(y.neg, BSub(a.y, a.x), a.e, FALSE)
        ELSE RoundToFloat(x.neg, BSub(a.x, a.y), a.e, FALSE)

\* x - y
FSub(x, y) == FAdd(x, FNeg(y))

\* x * y
FMul(x, y) == RoundToFloat(x.neg # y.neg, BMul(x.m, y.m), x.e + y.e, FALSE)

\* the float nearest to n / d, for small n and d
FloatOf(n, d) ==
    LET shift == Precision + 2 + Len(BitsOf(d))
        qr == BDivMod(BShl(BitsOf(n), shift), d)
    IN  RoundToFloat(FALSE, qr.q, 0 - shift, qr.r # 0)

OrderUnused ==
    /\ o_pc = "unused"
    /\ o_answers = <<>>
    /\ o_top_k = 1
    /\ o_filters = NoFilters
    /\ o_order = <<>>
    /\ o_given = <<>>
    /\ o_permuted = <<>>

\* nothing cached, nothing constructed: the state of a fresh process
NoHandles ==
    /\ h_lru = [embedding |-> 0, mongodb |-> 0]
    /\ h_singleton = [instance |-> 0, model |-> 0]
    /\ h_built = [model |-> 0, mongo_client |-> 0, qdrant_client |-> 0]

HandlesUnused == NoHandles /\ h_got = <<>>

FusionUnused ==
    /\ u_pc = "unused"
    /\ u_text_weight = Float(FALSE, <<>>, 0)
    /\ u_text_score = Float(FALSE, <<>>, 0)
    /\ u_image_score = Float(FALSE, <<>>, 0)
    /\ u_final_score = Float(FALSE, <<>>, 0)
    /\ u_outcome = "none"

CompareUnused ==
    /\ c_pc = "unused"
    /\ c_exists = FALSE
    /\ c_baseline = <<>>
    /\ c_current = <<>>
    /\ c_status = <<>>
    /\ c_regressions = {}
    /\ c_return = "none"

MoreUnused == OrderUnused /\ HandlesUnused /\ FusionUnused /\ CompareUnused

Init == MainIdle /\ FilterUnused /\ MetricsUnused /\ EvalUnused /\ MoreUnused

Next ==
    \/ CallSearchByText
    \/ TextSubQuery
    \/ TextSubQueryFails
    \/ CallSearchByImage
    \/ SearchByImageIndexFails
    \/ ConvertAndReturn
    \/ ConvertStoreFails
    \/ CallMergeResults
    \/ MergeResultsStoreFails

Spec == Init /\ [][Next]_vars

-----------------------------------------------------------------------------
(* Inputs of the filter specification *)

\* characters of the enumerated strings: one lower-case letter, one upper-case
\* letter and the blank
FilterAlphabet == {"a", "B", " "}

FilterDescriptions == StringsUpTo(FilterAlphabet, MaxDescLen)

FilterValues == StringsUpTo(FilterAlphabet, MaxValueLen)

FilterCategoryChoices ==
    { NoCategories,
      CategoriesOf(<<>>),
      CategoriesOf(<< <<"a">> >>),
      CategoriesOf(<< <<"B">>, <<"a">> >>) }

\* a single enumerated candidate under one constraint
SingleInputs ==
    { [results |-> << [product_id |-> "p1", description |-> d, score |-> 900,
                       categories |-> c] >>,
       filters |-> FiltersOf([k \in {key} |-> v])] :
        d \in FilterDescriptions, c \in FilterCategoryChoices,
        key \in {"color", "category"}, v \in FilterValues }

\* four fixed candidates: matching "red" and "dress", "red" only, "dress" only
\* (in a category value), neither ("bred", "address")
ListCandidates ==
    { [product_id |-> "p1", score |-> 900, categories |-> NoCategories,
       description |-> <<"a", " ", "R", "e", "d", " ", "d", "r", "e", "s", "s">>],
      [product_id |-> "p2", score |-> 900, categories |-> CategoriesOf(<< <<"t", "o", "p">> >>),
       description |-> <<"r", "e", "d", "-", "h", "o", "t">>],
      [product_id |-> "p3", score |-> 800,
       categories |-> CategoriesOf(<< <<"m", "i", "d", "i">>, <<"D", "r", "e", "s", "s">> >>),
       description |-> <<"b", "l", "u", "e">>],
      [product_id |-> "p4", score |-> 800, categories |-> CategoriesOf(<<>>),
       description |-> <<"b", "r", "e", "d", " ", "a", "d", "d", "r", "e", "s", "s">>] }

ListFilters ==
    { NoFilters,
      FiltersOf(<<>>),
      FiltersOf([k \in {"color"} |-> <<"r", "e", "d">>]),
      FiltersOf([k \in {"category"} |-> <<"d", "r", "e", "s", "s">>]),
      FiltersOf([k \in {"color", "category"} |->
                    IF k = "color" THEN <<"R", "E", "D">> ELSE <<"d", "r", "e", "s", "s">>]),
      FiltersOf([k \in {"color", "category"} |->
                    IF k = "color" THEN <<>> ELSE <<"d", "r", "e", "s", "s">>]) }

\* a single enumerated candidate under a colour and a category constraint
BothInputs ==
    { [results |-> << [product_id |-> "p1", description |-> d, score |-> 900,
                       categories |-> c] >>,
       filters |-> FiltersOf([k \in {"color", "category"} |->
                                IF k = "color" THEN v1 ELSE v2])] :
        d \in StringsUpTo(FilterAlphabet, MaxValueLen), c \in FilterCategoryChoices,
        v1 \in StringsUpTo({"a", "B"}, MaxValueLen),
        v2 \in StringsUpTo({"a", " "}, MaxValueLen) }

ListInputs ==
    { [results |-> r, filters |-> f] :
        r \in ListsUpTo(ListCandidates, MaxResults), f \in ListFilters }

-----------------------------------------------------------------------------
(* Specification of _filter_results as a pure function *)

InitFilter ==
    /\ MainIdle
    /\ MoreUnused
    /\ f_pc = "ready"
    /\ \E inp \in SingleInputs \cup BothInputs \cup ListInputs :
        /\ f_results = inp.results
        /\ f_filters = inp.filters
    /\ f_out = <<>>
    /\ MetricsUnused
    /\ EvalUnused

CallFilterResults ==
    /\ f_pc = "ready"
    /\ f_out' = FilterResults(f_results, f_filters)
    /\ f_pc' = "done"
    /\ UNCHANGED <<f_results, f_filters, mainVars, metricVars, evalVars, moreVars>>

NextFilter == CallFilterResults

SpecFilter == InitFilter /\ [][NextFilter]_vars

-----------------------------------------------------------------------------
(* Inputs of the metrics *)

MetricProducts == {"p1", "p2", "p3"}

\* a ranking as the retrieval engine returns it: no product twice
MetricRankings ==
    { r \in ListsUpTo(MetricProducts, MaxRankLen) : \A i, j \in DOMAIN r : i # j => r[i] # r[j] }

RankingLists == ListsUpTo(MetricRankings, MaxRankings)

\* ground-truth dicts: keys present with one, two, three or no relevant ids,
\* and keys missing
GroundTruths ==
    { {},
      {[key |-> "0", ids |-> {"p1"}], [key |-> "1", ids |-> {"p3"}]},
      {[key |-> "0", ids |-> {"p1", "p2"}], [key |-> "1", ids |-> {}],
       [key |-> "2", ids |-> {"p2"}]},
      {[key |-> "0", ids |-> {}], [key |-> "1", ids |-> {"p1", "p2", "p3"}]},
      {[key |-> "1", ids |-> {"p2"}], [key |-> "2", ids |-> {"p1", "p3"}]},
      {[key |-> "0", ids |-> {"p2", "p3"}], [key |-> "1", ids |-> {"p1"}],
       [key |-> "2", ids |-> {}]} }

CutOffs == {1, 2}

\* expected categories, one per ranking, "" where the query has none
QueryCategoryLists(n) == [1..n -> {"", "dress"}]

\* the category of each product of the catalogue that has one
ProductCategories ==
    {[key |-> "p1", category |-> "dress"], [key |-> "p2", category |-> "top"]}

-----------------------------------------------------------------------------
(* Specification of the metrics as pure functions *)

\* the function called and its arguments: the rank metrics take the rankings
\* and the ground truth, the cut-off metrics also k, the category accuracy the
\* rankings and one expected category per ranking
InitMetrics ==
    /\ MainIdle
    /\ MoreUnused
    /\ FilterUnused
    /\ m_pc = "ready"
    /\ m_rankings \in RankingLists
    /\ \/ /\ m_fn \in {"calculate_mrr", "calculate_average_rank"}
          /\ m_ground_truth \in GroundTruths
          /\ m_k = 1
          /\ m_query_categories = <<>>
       \/ /\ m_fn \in {"calculate_precision_at_k", "calculate_recall_at_k"}
          /\ m_ground_truth \in GroundTruths
          /\ m_k \in CutOffs
          /\ m_query_categories = <<>>
       \/ /\ m_fn = "calculate_category_accuracy"
          /\ m_ground_truth = {}
          /\ m_k = 1
          /\ m_query_categories \in QueryCategoryLists(Len(m_rankings))
    /\ m_out = Finite(Rat(0, 1))
    /\ EvalUnused

MetricReturns(value) ==
    /\ m_out' = value
    /\ m_pc' = "done"
    /\ UNCHANGED <<m_fn, m_rankings, m_ground_truth, m_k, m_query_categories, mainVars,
                   filterVars, evalVars, moreVars>>

CallCalculateMrr ==
    /\ m_pc = "ready"
    /\ m_fn = "calculate_mrr"
    /\ MetricReturns(calculate_mrr(m_rankings, m_ground_truth))

CallCalculatePrecisionAtK ==
    /\ m_pc = "ready"
    /\ m_fn = "calculate_precision_at_k"
    /\ MetricReturns(calculate_precision_at_k(m_rankings, m_ground_truth, m_k))

CallCalculateRecallAtK ==
    /\ m_pc = "ready"
    /\ m_fn = "calculate_recall_at_k"
    /\ MetricReturns(calculate_recall_at_k(m_rankings, m_ground_truth, m_k))

CallCalculateAverageRank ==
    /\ m_pc = "ready"
    /\ m_fn = "calculate_average_rank"
    /\ MetricReturns(calculate_average_rank(m_rankings, m_ground_truth))

CallCalculateCategoryAccuracy ==
    /\ m_pc = "ready"
    /\ m_fn = "calculate_category_accuracy"
    /\ MetricReturns(calculate_category_accuracy(m_rankings, m_query_categories,
                                                 ProductCategories))

NextMetrics ==
    \/ CallCalculateMrr
    \/ CallCalculatePrecisionAtK
    \/ CallCalculateRecallAtK
    \/ CallCalculateAverageRank
    \/ CallCalculateCategoryAccuracy

SpecMetrics == InitMetrics /\ [][NextMetrics]_vars

-----------------------------------------------------------------------------
(* Specification of an evaluation run *)

\* the product a generated benchmark query is made from, by position
BenchmarkProducts == <<"p1", "p2", "p3", "p1", "p2", "p3">>

\* the kinds of query a benchmark file may hold: the three types, a type the
\* evaluator does not know, and image queries whose file is missing
QueryKinds ==
    {[type |-> t, image_exists |-> x] :
        t \in QueryTypes \cup {"video"}, x \in BOOLEAN } \
    {[type |-> t, image_exists |-> FALSE] : t \in {"text", "video"}}

BenchmarkQuery(kind, i) ==
    [query_id |-> <<kind.type, i>>,
     type |-> kind.type,
     image_exists |-> kind.image_exists,
     expected_product_ids |-> {BenchmarkProducts[i]},
     primary_positives |-> {BenchmarkProducts[i]}]

Benchmarks ==
    { [i \in DOMAIN kinds |-> BenchmarkQuery(kinds[i], i)] :
        kinds \in ListsUpTo(QueryKinds, MaxBenchmark) }

\* the rankings a retrieval call may return
EvalRankings == {<<>>, <<"p1">>, <<"p2", "p1">>}

InitEval ==
    /\ MainIdle
    /\ MoreUnused
    /\ FilterUnused
    /\ MetricsUnused
    /\ e_pc = "load"
    /\ e_queries = <<>>
    /\ e_i = 0
    /\ e_all_rankings = <<>>
    /\ e_per_query_results = <<>>
    /\ e_by_type = NoRankingsByType
    /\ e_report = NoReport
    /\ e_executed = <<>>

\* SearchEvaluator.__init__ and the head of run_evaluation
LoadBenchmark ==
    /\ e_pc = "load"
    /\ e_queries' \in Benchmarks
    /\ e_pc' = "execute"
    /\ UNCHANGED <<e_i, e_all_rankings, e_per_query_results, e_by_type, e_report, e_executed,
                   mainVars, filterVars, metricVars, moreVars>>

\* one iteration of the loop over the queries, the try block running to its end
ExecuteQueryReturns ==
    /\ e_pc = "execute"
    /\ e_i < Len(e_queries)
    /\ LET query == e_queries[e_i + 1]
       IN  /\ MayReturn(query)
           /\ \E ranked_ids \in EvalRankings :
                /\ e_all_rankings' = Append(e_all_rankings, ranked_ids)
                /\ e_by_type' = [e_by_type EXCEPT ![query.type] = Append(@, ranked_ids)]
                /\ e_per_query_results' =
                       Append(e_per_query_results, QueryResult(query, ranked_ids))
                /\ e_executed' = Append(e_executed, [raised |-> FALSE, message |-> "",
                                                     ranked_ids |-> ranked_ids])
    /\ e_i' = e_i + 1
    /\ UNCHANGED <<e_pc, e_queries, e_report, mainVars, filterVars, metricVars, moreVars>>

\* a variant in which the exception of a query leaves run_evaluation
ExecuteQueryRaisesThrough ==
    /\ e_pc = "execute"
    /\ e_i < Len(e_queries)
    /\ e_executed' = Append(e_executed, [raised |-> TRUE,
                                         message |-> RaisedBy(e_queries[e_i + 1]),
                                         ranked_ids |-> <<>>])
    /\ e_pc' = "raised"
    /\ UNCHANGED <<e_queries, e_i, e_all_rankings, e_per_query_results, e_by_type, e_report,
                   mainVars, filterVars, metricVars, moreVars>>

\* one iteration of the loop in which _execute_query raises: the except block
ExecuteQueryRaises ==
    /\ e_pc = "execute"
    /\ e_i < Len(e_queries)
    /\ LET query == e_queries[e_i + 1]
           message == RaisedBy(query)
       IN  /\ e_all_rankings' = Append(e_all_rankings, <<>>)
           /\ e_per_query_results' = Append(e_per_query_results, QueryError(query, message))
           /\ e_executed' = Append(e_executed, [raised |-> TRUE, message |-> message,
                                                ranked_ids |-> <<>>])
    /\ e_i' = e_i + 1
    /\ UNCHANGED <<e_pc, e_queries, e_by_type, e_report, mainVars, filterVars, metricVars, moreVars>>

\* a variant that computes the metrics while queries are still to be executed
FinishRunEarly ==
    /\ e_pc = "execute"
    /\ e_i <= Len(e_queries)
    /\ e_report' = Report(e_queries, e_all_rankings, e_per_query_results, e_by_type)
    /\ e_pc' = "done"
    /\ UNCHANGED <<e_queries, e_i, e_all_rankings, e_per_query_results, e_by_type, e_executed,
                   mainVars, filterVars, metricVars, moreVars>>

\* the tail of run_evaluation: the metrics and the returned dictionary
FinishRun ==
    /\ e_pc = "execute"
    /\ e_i = Len(e_queries)
    /\ e_report' = Report(e_queries, e_all_rankings, e_per_query_results, e_by_type)
    /\ e_pc' = "done"
    /\ UNCHANGED <<e_queries, e_i, e_all_rankings, e_per_query_results, e_by_type, e_executed,
                   mainVars, filterVars, metricVars, moreVars>>

NextEval ==
    \/ LoadBenchmark
    \/ ExecuteQueryReturns
    \/ ExecuteQueryRaises
    \/ FinishRun

SpecEval == InitEval /\ [][NextEval]_vars

\* the step from the loop to the metrics and the return, by its control
Finishing == e_pc = "execute" /\ e_i = Len(e_queries) /\ e_pc' = "done"

\* run_evaluation is one coroutine that main awaits: the loop goes on to the
\* next query as each awaited retrieval call returns or raises, and to the
\* metrics after the last one
SpecEvalFair ==
    /\ SpecEval
    /\ WF_vars(LoadBenchmark \/ ExecuteQueryReturns \/ ExecuteQueryRaises)
    /\ WF_e_pc(Finishing)

-----------------------------------------------------------------------------
(* Specification of search_by_text on one set of sub-queries in two orders *)

\* the loop over valid_queries: the answers merged into all_results in order
RECURSIVE MergeAnswers(_, _)
MergeAnswers(d, answers) ==
    IF answers = <<>> THEN d
    ELSE MergeAnswers(MergeHits(d, Head(answers)), Tail(answers))

\* what search_by_text returns when the index gives answers[i] to the i-th
\* sub-query
SearchByTextResult(answers, k, flt) ==
    LET converted == ConvertToProductResults(SortByScoreDesc(MergeAnswers(<<>>, answers)))
    IN  IF converted.raised THEN [raised |-> TRUE, results |-> <<>>]
        ELSE [raised |-> FALSE,
              results |-> IF FiltersTruthy(flt)
                          THEN FilterAndTruncate(converted.results, flt, k)
                          ELSE converted.results]

\* the orders in which n sub-queries can be issued
QueryOrders(n) == {f \in [1..n -> 1..n] : \A i, j \in 1..n : f[i] = f[j] => i = j}

InOrder(answers, order) == [i \in DOMAIN answers |-> answers[order[i]]]

\* filters of the two calls: none, and colour red
OrderFilters == {NoFilters, FiltersOf([k \in {"color"} |-> <<"r", "e", "d">>])}

InitOrder ==
    /\ MainIdle
    /\ FilterUnused
    /\ MetricsUnused
    /\ EvalUnused
    /\ HandlesUnused
    /\ FusionUnused
    /\ CompareUnused
    /\ o_pc = "ready"
    /\ o_top_k \in 1..MaxTopK
    /\ o_filters \in OrderFilters
    /\ \E n \in 1..MaxQueries :
          o_answers \in [1..n -> QueryPoints(TextQuery(SearchLimit(o_top_k, o_filters),
                                                      DefaultScoreThreshold))]
    /\ o_order = <<>>
    /\ o_given = <<>>
    /\ o_permuted = <<>>

\* search_by_text(queries, top_k, filters)
SearchInGivenOrder ==
    /\ o_pc = "ready"
    /\ o_given' = SearchByTextResult(o_answers, o_top_k, o_filters).results
    /\ o_pc' = "first"
    /\ UNCHANGED <<o_answers, o_top_k, o_filters, o_order, o_permuted,
                   mainVars, filterVars, metricVars, evalVars, handleVars, fusionVars,
                   compareVars>>

\* search_by_text on the same queries in another order, the index answering
\* each query as before
SearchInPermutedOrder ==
    /\ o_pc = "first"
    /\ \E order \in QueryOrders(Len(o_answers)) :
          /\ o_order' = order
          /\ o_permuted' =
                 SearchByTextResult(InOrder(o_answers, order), o_top_k, o_filters).results
    /\ o_pc' = "done"
    /\ UNCHANGED <<o_answers, o_top_k, o_filters, o_given,
                   mainVars, filterVars, metricVars, evalVars, handleVars, fusionVars,
                   compareVars>>

NextOrder ==
    \/ SearchInGivenOrder
    \/ SearchInPermutedOrder

SpecOrder == InitOrder /\ [][NextOrder]_vars

-----------------------------------------------------------------------------
(* Specification of the service accessors of one process *)

\* requests in flight at once, and accessor calls made by one request
MaxCallers == 2

MaxCalls == 2

Callers == 1..MaxCallers

\* EmbeddingService(): __new__ hands out the one instance, __init__ loads the
\* model if the instance has none; the result is [singleton, built, handle]
NewEmbeddingService(singleton, built) ==
    LET loads == singleton.model = 0
        model == IF loads THEN built.model + 1 ELSE singleton.model
    IN  [singleton |-> [instance |-> 1, model |-> model],
         built |-> [built EXCEPT !.model = IF loads THEN @ + 1 ELSE @],
         handle |-> model]

\* get_embedding_service(): lru_cache around EmbeddingService()
EmbeddingServiceOf(lru, singleton, built) ==
    IF lru.embedding # 0
    THEN [lru |-> lru, singleton |-> singleton, built |-> built, handle |-> lru.embedding]
    ELSE LET new == NewEmbeddingService(singleton, built)
         IN  [lru |-> [lru EXCEPT !.embedding = new.handle], singleton |-> new.singleton,
              built |-> new.built, handle |-> new.handle]

\* get_mongodb_service(): lru_cache around MongoDBService(), whose __init__
\* constructs the AsyncIOMotorClient
MongodbServiceOf(lru, built) ==
    IF lru.mongodb # 0
    THEN [lru |-> lru, built |-> built, handle |-> lru.mongodb]
    ELSE [lru |-> [lru EXCEPT !.mongodb = built.mongo_client + 1],
          built |-> [built EXCEPT !.mongo_client = @ + 1],
          handle |-> built.mongo_client + 1]

InitHandles ==
    /\ MainIdle
    /\ FilterUnused
    /\ MetricsUnused
    /\ EvalUnused
    /\ OrderUnused
    /\ FusionUnused
    /\ CompareUnused
    /\ NoHandles
    /\ h_got = [c \in Callers |-> <<>>]

MayCall(c) == Len(h_got[c]) < MaxCalls

Got(c, getter, handles) ==
    h_got' = [h_got EXCEPT ![c] = Append(@, [getter |-> getter, handles |-> handles])]

NoHandle == [model |-> 0, mongo_client |-> 0, qdrant_client |-> 0]

\* a request calls get_embedding_service()
GetEmbeddingService(c) ==
    /\ MayCall(c)
    /\ LET e == EmbeddingServiceOf(h_lru, h_singleton, h_built)
       IN  /\ h_lru' = e.lru
           /\ h_singleton' = e.singleton
           /\ h_built' = e.built
           /\ Got(c, "get_embedding_service", [NoHandle EXCEPT !.model = e.handle])
    /\ UNCHANGED <<mainVars, filterVars, metricVars, evalVars, orderVars, fusionVars,
                   compareVars>>

\* a request calls get_mongodb_service()
GetMongodbService(c) ==
    /\ MayCall(c)
    /\ LET m == MongodbServiceOf(h_lru, h_built)
       IN  /\ h_lru' = m.lru
           /\ h_built' = m.built
           /\ Got(c, "get_mongodb_service", [NoHandle EXCEPT !.mongo_client = m.handle])
    /\ UNCHANGED <<h_singleton, mainVars, filterVars, metricVars, evalVars, orderVars, fusionVars,
                   compareVars>>

\* a request calls get_retriever_service(): RetrieverService() constructs a
\* QdrantClient, then takes the embedding and the product store services
GetRetrieverService(c) ==
    /\ MayCall(c)
    /\ LET client == h_built.qdrant_client + 1
           e == EmbeddingServiceOf(h_lru, h_singleton,
                                   [h_built EXCEPT !.qdrant_client = client])
           m == MongodbServiceOf(e.lru, e.built)
       IN  /\ h_lru' = m.lru
           /\ h_singleton' = e.singleton
           /\ h_built' = m.built
           /\ Got(c, "get_retriever_service",
                  [model |-> e.handle, mongo_client |-> m.handle, qdrant_client |-> client])
    /\ UNCHANGED <<mainVars, filterVars, metricVars, evalVars, orderVars, fusionVars,
                   compareVars>>

\* the requests are coroutines on one event loop and the accessors await
\* nothing: a call runs to its end before another request goes on
NextHandles ==
    \E c \in Callers :
        \/ GetEmbeddingService(c)
        \/ GetMongodbService(c)
        \/ GetRetrieverService(c)

SpecHandles == InitHandles /\ [][NextHandles]_vars

-----------------------------------------------------------------------------
(* Specification of the fused score of one product, in floats *)

\* text_weight values of a query plan
FusionWeights ==
    {FloatOf(0, 1), FloatOf(3, 10), FloatOf(43, 100), FloatOf(1, 2), FloatOf(7, 10),
     FloatOf(1, 1)}

\* scores of the ProductResults handed in: 0.0 stands for a product missing on
\* that side, 1.01 is the highest score a ProductResult can hold
FusionScores ==
    {FloatOf(0, 1), FloatOf(1, 2), FloatOf(9, 10), FloatOf(1, 1), FloatOf(ScoreMax, 1000)}

\* final_score = (text_weight * text_score) + (image_weight * image_score),
\* image_weight = 1.0 - text_weight
FinalScore(weight, text_score, image_score) ==
    FAdd(FMul(weight, text_score), FMul(FSub(FloatOf(1, 1), weight), image_score))

\* score: float = Field(..., ge=0.0, le=1.01)
ScoreInBounds(score) ==
    /\ ~FLess(score, FloatOf(0, 1))
    /\ ~FLess(FloatOf(ScoreMax, 1000), score)

InitFusion ==
    /\ MainIdle
    /\ FilterUnused
    /\ MetricsUnused
    /\ EvalUnused
    /\ OrderUnused
    /\ HandlesUnused
    /\ CompareUnused
    /\ u_pc = "ready"
    /\ u_text_weight \in FusionWeights
    /\ u_text_score \in FusionScores
    /\ u_image_score \in FusionScores
    /\ u_final_score = FloatOf(0, 1)
    /\ u_outcome = "none"

\* the body of the loop of merge_results for one product, and the
\* ProductResult made of its score
FuseScores ==
    /\ u_pc = "ready"
    /\ u_final_score' = FinalScore(u_text_weight, u_text_score, u_image_score)
    /\ u_outcome' = IF ScoreInBounds(u_final_score') THEN "returned" ELSE "raised"
    /\ u_pc' = "done"
    /\ UNCHANGED <<u_text_weight, u_text_score, u_image_score,
                   mainVars, filterVars, metricVars, evalVars, orderVars, handleVars,
                   compareVars>>

NextFusion == FuseScores

SpecFusion == InitFusion /\ [][NextFusion]_vars

-----------------------------------------------------------------------------
(* Specification of the comparison with the baseline *)

\* two of the metrics of overall_metrics: one where higher is better, and
\* average_rank, where lower is better
CompareMetrics == {"mrr", "average_rank"}

\* values of the metrics in two runs; 19/32 is 5% below 5/8, and 19 is 5% below 20
AverageRankValues == {FloatOf(1, 1), FloatOf(2, 1), FloatOf(19, 1), FloatOf(20, 1)}

MrrValues == {FloatOf(0, 1), FloatOf(19, 32), FloatOf(5, 8), FloatOf(7, 10), FloatOf(4, 5)}

OverallMetrics ==
    {[mt \in CompareMetrics |-> IF mt = "average_rank" THEN rank ELSE mrr] :
        rank \in AverageRankValues, mrr \in MrrValues}

\* threshold = 0.05
Threshold == FloatOf(5, 100)

\* a variant that flags a change of exactly the threshold as well
MetricStatusInclusive(baseline_value, current_value) ==
    LET delta == FSub(current_value, baseline_value)
    IN  IF ~FLess(FMul(FNeg(Threshold), baseline_value), delta) THEN "REGRESSION"
        ELSE IF ~FLess(delta, FMul(Threshold, baseline_value)) THEN "IMPROVED"
        ELSE "OK"

\* the status of one metric: delta < -threshold * baseline_value is a
\* regression, delta > threshold * baseline_value an improvement
MetricStatus(baseline_value, current_value) ==
    LET delta == FSub(current_value, baseline_value)
    IN  IF FLess(delta, FMul(FNeg(Threshold), baseline_value)) THEN "REGRESSION"
        ELSE IF FLess(FMul(Threshold, baseline_value), delta) THEN "IMPROVED"
        ELSE "OK"

\* a variant that reports no regressions whatever was flagged
CompareReturnsTrue(regressions) == "True"

\* if regressions: return False, else: return True
CompareReturns(regressions) == IF regressions # {} THEN "False" ELSE "True"

InitCompare ==
    /\ MainIdle
    /\ FilterUnused
    /\ MetricsUnused
    /\ EvalUnused
    /\ OrderUnused
    /\ HandlesUnused
    /\ FusionUnused
    /\ c_pc = "ready"
    /\ c_exists \in BOOLEAN
    /\ c_current \in OverallMetrics
    /\ IF c_exists THEN c_baseline \in OverallMetrics ELSE c_baseline = <<>>
    /\ c_status = <<>>
    /\ c_regressions = {}
    /\ c_return = "none"

\* compare_to_baseline(current_results, baseline_path)
CallCompareToBaseline ==
    /\ c_pc = "ready"
    /\ IF ~c_exists
       THEN /\ c_return' = "None"
            /\ UNCHANGED <<c_status, c_regressions>>
       ELSE LET status == [mt \in DOMAIN c_current |->
                              MetricStatus(c_baseline[mt], c_current[mt])]
                regressions == {mt \in DOMAIN c_current : status[mt] = "REGRESSION"}
            IN  /\ c_status' = status
                /\ c_regressions' = regressions
                /\ c_return' = CompareReturns(regressions)
    /\ c_pc' = "done"
    /\ UNCHANGED <<c_exists, c_baseline, c_current,
                   mainVars, filterVars, metricVars, evalVars, orderVars, handleVars,
                   fusionVars>>

NextCompare == CallCompareToBaseline

SpecCompare == InitCompare /\ [][NextCompare]_vars

-----------------------------------------------------------------------------
(* Properties of the searches and of the fusion *)

MaxOf(S) == CHOOSE x \in S : \A y \in S : y <= x

\* the scores the vector index has returned for a product during this call
SeenScores(pid) == {h.score : h \in {x \in seen : x.product_id = pid}}

ResultIds == {result[i].product_id : i \in DOMAIN result}

StoredIds == {p.product_id : p \in StoredProducts}

TextReturned == op = "text" /\ pc = "done" /\ outcome = "returned"

SearchReturned == op \in {"text", "image"} /\ pc = "done" /\ outcome = "returned"

\* C1: in a text search, the score kept for a product while the sub-queries run,
\* and the score reported for it in the returned list, is the maximum of the
\* scores the vector index returned for that product over all sub-queries.
C1_MaxDedup ==
    /\ op = "text" =>
          \A pid \in {h.product_id : h \in seen} :
              /\ DictHas(all_results, pid)
              /\ DictGet(all_results, pid) = MaxOf(SeenScores(pid))
    /\ TextReturned =>
          \A i \in DOMAIN result :
              result[i].score = MaxOf(SeenScores(result[i].product_id))

\* C1 witness: a returned product was hit by two sub-queries with different
\* scores.
C1_Witness ==
    /\ TextReturned
    /\ qi = 2
    /\ \E i \in DOMAIN result : Cardinality(SeenScores(result[i].product_id)) = 2

\* the score of a product in a list of results, 0 when the product is not in it
ScoreIn(results, pid) ==
    IF \E i \in DOMAIN results : results[i].product_id = pid
    THEN results[CHOOSE i \in DOMAIN results : results[i].product_id = pid].score
    ELSE 0

IdsOf(results) == {results[i].product_id : i \in DOMAIN results}

\* C2: merge_results gives every product of either input list the score
\* text_weight * textScore + (1 - text_weight) * imageScore, a modality the
\* product is absent from counting 0 (weights in tenths, hence the factor 10).
C2_FusionArithmetic ==
    (op = "merge" /\ outcome = "returned") =>
        /\ \A i \in DOMAIN result :
              10 * result[i].score =
                  text_weight * ScoreIn(text_results, result[i].product_id)
                    + (10 - text_weight) * ScoreIn(image_results, result[i].product_id)
        /\ \A pid \in (IdsOf(text_results) \cup IdsOf(image_results)) \cap StoredIds :
              pid \in ResultIds

\* C2 witness: with text_weight 0.3, a product at 0.9 in the text results and
\* absent from the image results has the fused score 0.27.
C2_Witness ==
    /\ op = "merge"
    /\ outcome = "returned"
    /\ text_weight = 3
    /\ \E i \in DOMAIN result :
          /\ result[i].product_id \notin IdsOf(image_results)
          /\ ScoreIn(text_results, result[i].product_id) = 900
          /\ result[i].score = 270

\* C3: every returned list is ordered by score, non-increasing.
C3_SortedByScore ==
    outcome = "returned" =>
        \A i \in DOMAIN result :
            i + 1 \in DOMAIN result => result[i].score >= result[i + 1].score

\* C3 witness: a filtered text search returned two products with different
\* scores, the better one having entered the table last, after a hit without a
\* product record was dropped.
C3_Witness ==
    /\ TextReturned
    /\ FiltersTruthy(filters)
    /\ DictHas(all_results, "p3")
    /\ Len(result) = 2
    /\ result[1].score > result[2].score
    /\ all_results[Len(all_results)].product_id = result[1].product_id

\* C4 as stated: a search returns at most top_k results.
C4_AtMostTopK == SearchReturned => Len(result) <= top_k

\* the candidates of a search: the merged hits that have a product record
Candidates == {all_results[i].product_id : i \in DOMAIN all_results} \cap StoredIds

RecordOf(pid) == CHOOSE p \in StoredProducts : p.product_id = pid

\* the candidates that pass the attribute filter
Passing == {pid \in Candidates : Keep(RecordOf(pid), filters)}

\* C5: a text search under a filter set returns exactly min(top_k, n) results,
\* n being the number of candidates that pass the filter, and they are the
\* highest-scoring of the passing candidates.
C5_FilteredTruncation ==
    (TextReturned /\ FiltersTruthy(filters)) =>
        /\ Len(result) = Min(top_k, Cardinality(Passing))
        /\ Cardinality(ResultIds) = Len(result)
        /\ ResultIds \subseteq Passing
        /\ \A pid \in Passing \ ResultIds :
              \A i \in DOMAIN result : result[i].score >= DictGet(all_results, pid)

\* C5 witness: more candidates passed the filter than top_k, and top_k results
\* came back.
C5_Witness ==
    /\ TextReturned
    /\ FiltersTruthy(filters)
    /\ Cardinality(Passing) > top_k
    /\ Len(result) = top_k
    /\ \E pid \in Passing \ ResultIds : DictGet(all_results, pid) < result[1].score

\* C6: every score a search returns lies between score_threshold and 1.01.
C6_ScoresWithinThreshold ==
    SearchReturned =>
        \A i \in DOMAIN result :
            result[i].score >= score_threshold /\ result[i].score <= ScoreMax

\* C6 witness: a search with the higher threshold returned a result.
C6_Witness ==
    /\ SearchReturned
    /\ score_threshold > DefaultScoreThreshold
    /\ result # <<>>

\* a string that is empty or holds blanks only
Blank(q) == \A i \in DOMAIN q : q[i] = " "

\* C7: a text search whose queries are all empty or blank returns the empty
\* list and calls neither the embedding service, the vector index nor the
\* product store; a blank query among real ones is never embedded.
C7_BlankQueries ==
    op = "text" =>
        /\ (\A i \in DOMAIN queries : Blank(queries[i])) =>
              /\ pc = "done"
              /\ outcome = "returned"
              /\ result = <<>>
              /\ embed_calls = <<>>
              /\ index_calls = <<>>
              /\ store_calls = 0
        /\ \A i \in DOMAIN embed_calls : ~Blank(embed_calls[i].input)

\* C7 witness: a text search over an empty and a blank query has returned.
C7_Witness ==
    /\ TextReturned
    /\ Len(queries) = 2
    /\ \E i \in DOMAIN queries : queries[i] = <<>>
    /\ \E i \in DOMAIN queries : queries[i] = <<" ">>
    /\ result = <<>>

\* a filter set is present: a dict with at least one entry was passed
FilterSetPresent == filters.given /\ Cardinality(DOMAIN filters.dict) >= 1

\* C8: every vector index query of a search asks for top_k points without a
\* filter set and for top_k * 5 with one, and carries score_threshold.
C8_QueryLimit ==
    op \in {"text", "image"} =>
        \A i \in DOMAIN index_calls :
            /\ index_calls[i].limit = IF FilterSetPresent THEN top_k * 5 ELSE top_k
            /\ index_calls[i].score_threshold = score_threshold

\* C8 witness: two sub-queries under a filter set, each asking for top_k * 5
\* points with the higher threshold.
C8_Witness ==
    /\ op = "text"
    /\ FilterSetPresent
    /\ top_k = 2
    /\ Len(index_calls) = 2
    /\ index_calls[2].limit = 10
    /\ index_calls[2].score_threshold = 850

MergeReturned == op = "merge" /\ pc = "done" /\ outcome = "returned"

MergeInputIds == IdsOf(text_results) \cup IdsOf(image_results)

\* C11: the products merge_results returns are exactly the products of either
\* input list that have a record in the product store, each once: nothing is
\* cut off, whatever the lengths of the inputs.
C11_UnionOfResolved ==
    MergeReturned =>
        /\ ResultIds = MergeInputIds \cap StoredIds
        /\ Len(result) = Cardinality(MergeInputIds \cap StoredIds)

\* C11 witness: two full-length input lists that overlap and hold a product
\* without a record; the two products with a record came back.
C11_Witness ==
    /\ MergeReturned
    /\ Len(text_results) = MaxMergeLen
    /\ Len(image_results) = MaxMergeLen
    /\ "p3" \in MergeInputIds
    /\ StoredIds \subseteq MergeInputIds
    /\ Len(result) = 2

IdSeq(results) == [i \in DOMAIN results |-> results[i].product_id]

\* the results of a list whose product has a record in the product store
ResolvedOf(results) == SelectSeq(results, LAMBDA r : r.product_id \in StoredIds)

PosIn(results, pid) == CHOOSE i \in DOMAIN results : results[i].product_id = pid

\* every returned score is the score of the product in `results` times w tenths
ScaledFrom(results, w) ==
    \A i \in DOMAIN result : 10 * result[i].score = w * ScoreIn(results, result[i].product_id)

\* the returned list carries `results` through in its order
CarriedInOrder(results) == IdSeq(result) = IdSeq(ResolvedOf(results))

\* the returned list carries `results` through ordered by scaled score, the
\* original order kept wherever two scaled scores differ
CarriedByScore(results) ==
    /\ ResultIds = IdsOf(ResolvedOf(results))
    /\ Len(result) = Len(ResolvedOf(results))
    /\ \A i, j \in DOMAIN result :
          i < j =>
             /\ result[i].score >= result[j].score
             /\ result[i].score > result[j].score =>
                    PosIn(results, result[i].product_id) < PosIn(results, result[j].product_id)

\* merge_results with both inputs empty returns the empty list and does not
\* call the product store
BothEmptyShortCut ==
    (text_results = <<>> /\ image_results = <<>>) => (result = <<>> /\ store_calls = 0)

\* C12 as stated: with both inputs empty merge_results returns the empty list
\* without calling the product store; with exactly one input empty it returns
\* the products of the other input in their original relative order, each score
\* multiplied by that side's weight.
C12_CarryThrough ==
    MergeReturned =>
        /\ BothEmptyShortCut
        /\ (text_results = <<>> /\ image_results # <<>>) =>
               (CarriedInOrder(image_results) /\ ScaledFrom(image_results, 10 - text_weight))
        /\ (text_results # <<>> /\ image_results = <<>>) =>
               (CarriedInOrder(text_results) /\ ScaledFrom(text_results, text_weight))

\* C12 amended: the same, the products of the other input coming ordered by
\* their scaled score, best first: in their original relative order wherever
\* two scaled scores differ, in no particular order where they are equal.
C12_CarryThroughUpToTies ==
    MergeReturned =>
        /\ BothEmptyShortCut
        /\ (text_results = <<>> /\ image_results # <<>>) =>
               (CarriedByScore(image_results) /\ ScaledFrom(image_results, 10 - text_weight))
        /\ (text_results # <<>> /\ image_results = <<>>) =>
               (CarriedByScore(text_results) /\ ScaledFrom(text_results, text_weight))

\* C12 witness: with no text results and text_weight 0.3, two image results of
\* equal score came back scaled by 0.7, the second of them first.
C12_Witness ==
    /\ MergeReturned
    /\ text_results = <<>>
    /\ text_weight = 3
    /\ Len(image_results) = 2
    /\ Len(result) = 2
    /\ result[1].product_id = image_results[2].product_id
    /\ result[1].score = 630
    /\ result[2].score = 630

PairsOf(results) ==
    [i \in DOMAIN results |-> [product_id |-> results[i].product_id, score |-> results[i].score]]

\* the hits of the search in the order of their scores, without those that have
\* no product record
ResolvedHits == SelectSeq(SortByScoreDesc(all_results), LAMBDA m : m.product_id \in StoredIds)

\* C13: every returned result is a product of the product store and carries the
\* description, image_path and categories of its record; a hit without a record
\* is left out, raises nothing and leaves the scores and the order of the other
\* hits as they are.
C13_ResolvedAndEnriched ==
    /\ outcome = "returned" =>
          \A i \in DOMAIN result :
              /\ result[i].product_id \in StoredIds
              /\ result[i].description = RecordOf(result[i].product_id).description
              /\ result[i].image_path = RecordOf(result[i].product_id).image_path
              /\ result[i].categories = RecordOf(result[i].product_id).categories
    /\ (SearchReturned /\ ~FiltersTruthy(filters)) => PairsOf(result) = ResolvedHits
    /\ (SearchReturned /\ FiltersTruthy(filters)) =>
          PairsOf(result) =
              Take(SelectSeq(ResolvedHits, LAMBDA m : Keep(RecordOf(m.product_id), filters)),
                   top_k)
    /\ MergeReturned => MergeInputIds \cap StoredIds \subseteq ResultIds
    /\ failure = "validation" =>
          \E i \in DOMAIN ResolvedHits : ~ScoreValid(ResolvedHits[i].score)

\* C13 witness: an unfiltered search whose best hit has no product record
\* returned the two hits below it.
C13_Witness ==
    /\ SearchReturned
    /\ ~FiltersTruthy(filters)
    /\ all_results # <<>>
    /\ SortByScoreDesc(all_results)[1].product_id = "p3"
    /\ Len(result) = 2
    /\ result[1].score > result[2].score

\* C14: a failure of the vector index or of the product store ends the call
\* with that failure and no result; each call made to the index and to the
\* store was made once; a text search stops at the first failing sub-query,
\* the queries behind it are not issued.
C14_FailurePropagates ==
    /\ failure \in {"index", "store"} =>
          /\ pc = "done"
          /\ outcome = "raised"
          /\ result = <<>>
    /\ (failure = "index" /\ op = "text") =>
          /\ Len(index_calls) = qi
          /\ Len(embed_calls) = qi
          /\ qi <= Len(valid_queries)
          /\ store_calls = 0
    /\ (failure = "index" /\ op = "image") => (Len(index_calls) = 1 /\ store_calls = 0)
    /\ failure = "store" =>
          /\ store_calls = 1
          /\ op = "text" => Len(index_calls) = Len(valid_queries)
          /\ op = "image" => Len(index_calls) = 1
          /\ op = "merge" => index_calls = <<>>

\* C14 witness: the first of two sub-queries failed, the second was not issued.
C14_Witness ==
    /\ op = "text"
    /\ failure = "index"
    /\ outcome = "raised"
    /\ Len(valid_queries) = 2
    /\ Len(index_calls) = 1
    /\ result = <<>>

ImageReturned == op = "image" /\ pc = "done" /\ outcome = "returned"

C30_NoDuplicates ==
    outcome = "returned" =>
        \A i, j \in DOMAIN result : i # j => result[i].product_id # result[j].product_id

\* C30 witness: the index answered an image query with two hits for "p1" and
\* a hit for "p2"; both products came back.
C30_Witness ==
    /\ ImageReturned
    /\ Cardinality({h \in seen : h.product_id = "p1"}) = 2
    /\ ResultIds = {"p1", "p2"}
    /\ Len(result) = 2

\* C23 as stated: search_by_text returns the same list (products, scores and
\* order) for every order of the same sub-queries with the same index answers.
C23_OrderIndependent == o_pc = "done" => o_permuted = o_given

\* C26 as stated: for a text_weight in [0, 1] and input scores in [0, 1.01]
\* the fused score lies in [0, 1.01], and the ProductResult is constructed.
C26_FusedScoreInBounds ==
    u_pc = "done" => ScoreInBounds(u_final_score) /\ u_outcome = "returned"

-----------------------------------------------------------------------------
(* Properties of the attribute filter *)

\* two characters are the same letter, whatever their case
SameLetter(a, b) ==
    \/ a = b
    \/ {a, b} \in {{"a", "A"}, {"b", "B"}, {"d", "D"}, {"e", "E"}, {"r", "R"}}

\* value occurs in text at position i, compared case-insensitively
OccursAt(value, text, i) ==
    /\ i >= 1
    /\ i + Len(value) - 1 <= Len(text)
    /\ \A j \in 1..Len(value) : SameLetter(value[j], text[i + j - 1])

\* value occurs in text as a whole word: some occurrence is not a part of a
\* longer word, that is no letter stands right before it or right after it
OccursAsWholeWord(value, text) ==
    \E i \in 1..Len(text) :
        /\ OccursAt(value, text, i)
        /\ ~IsWordAt(text, i - 1)
        /\ ~IsWordAt(text, i + Len(value))

\* value occurs in text, possibly inside a longer word
OccursSomewhere(value, text) == \E i \in 1..Len(text) : OccursAt(value, text, i)

\* the texts of a candidate the filter looks at: its description and its
\* category values, joined by blanks
JoinedCategories(res) == JoinBlank(res.categories.vals)

WholeWordInCandidate(value, res) ==
    \/ OccursAsWholeWord(value, res.description)
    \/ OccursAsWholeWord(value, JoinedCategories(res))

\* the constraints of a filter that are present with a non-empty value
ActiveKeys(flt) ==
    {k \in {"color", "category"} : flt.given /\ k \in DOMAIN flt.dict
                                    /\ flt.dict[k] # <<>>}

\* the value begins and ends with a letter
WordEdged(value) ==
    /\ value # <<>>
    /\ IsWordChar(value[1])
    /\ IsWordChar(value[Len(value)])

\* C9 as stated: under a single color (or category) constraint a candidate is
\* kept if and only if the constraint value, compared case-insensitively,
\* occurs as a whole word in the candidate's description or joined category
\* values.
C9_WholeWordIff ==
    (f_pc = "done" /\ Cardinality(ActiveKeys(f_filters)) = 1) =>
        LET key == CHOOSE k \in ActiveKeys(f_filters) : TRUE
            value == f_filters.dict[key]
        IN  f_out = SelectSeq(f_results, LAMBDA r : WholeWordInCandidate(value, r))

\* C9 amended: the same, for a constraint value that begins and ends with a
\* word character.
C9_WholeWordIffWordEdged ==
    (f_pc = "done" /\ Cardinality(ActiveKeys(f_filters)) = 1) =>
        LET key == CHOOSE k \in ActiveKeys(f_filters) : TRUE
            value == f_filters.dict[key]
        IN  WordEdged(value) =>
                f_out = SelectSeq(f_results, LAMBDA r : WholeWordInCandidate(value, r))

\* C9 witness: a candidate in which the value of the single constraint occurs
\* only inside a longer word has been removed by the filter, in a call that
\* kept nothing.
C9_Witness ==
    /\ f_pc = "done"
    /\ Cardinality(ActiveKeys(f_filters)) = 1
    /\ LET key == CHOOSE k \in ActiveKeys(f_filters) : TRUE
           value == f_filters.dict[key]
       IN  /\ WordEdged(value)
           /\ Len(value) = 2
           /\ \E i \in DOMAIN f_results :
                 /\ OccursSomewhere(value, f_results[i].description)
                 /\ ~WholeWordInCandidate(value, f_results[i])
    /\ f_out = <<>>

-----------------------------------------------------------------------------
(* Properties of the metrics *)

MetricDone(fn) == m_pc = "done" /\ m_fn = fn

\* the value x is the fraction n/d
IsFraction(x, n, d) == ~x.inf /\ x.num * d = n * x.den

InUnitInterval(x) == ~x.inf /\ 0 <= x.num /\ x.num <= x.den

\* the ground-truth set of the i-th ranking, whose index is i - 1
Relevant(i) == UNION {item.ids : item \in {it \in m_ground_truth : it.key = Str(i - 1)}}

\* the positions of the i-th ranking that hold a relevant id
RelevantPositions(i) == {j \in DOMAIN m_rankings[i] : m_rankings[i][j] \in Relevant(i)}

HasRelevant(i) == RelevantPositions(i) # {}

FirstRank(i) == CHOOSE j \in RelevantPositions(i) : \A l \in RelevantPositions(i) : j <= l

\* the number of relevant ids among the first m_k entries of the i-th ranking
RelevantInTopK(i) == Cardinality({j \in RelevantPositions(i) : j <= m_k})

RECURSIVE SumOver(_, _)
SumOver(f, S) ==
    IF S = {} THEN 0
    ELSE LET i == CHOOSE x \in S : TRUE IN f[i] + SumOver(f, S \ {i})

RECURSIVE Factorial(_)
Factorial(n) == IF n <= 1 THEN 1 ELSE n * Factorial(n - 1)

\* a common multiple of every rank and of every size of a relevant set
Scale == Factorial(IF MaxRankLen > Cardinality(MetricProducts) THEN MaxRankLen
                   ELSE Cardinality(MetricProducts))

\* C15: calculate_mrr returns the mean, over all rankings, of 1/rank of the
\* first relevant id of the ranking, a ranking without a relevant id
\* contributing 0.
C15_MeanReciprocalRank ==
    (MetricDone("calculate_mrr") /\ m_rankings # <<>>) =>
        IsFraction(m_out,
                   SumOver([i \in DOMAIN m_rankings |->
                               IF HasRelevant(i) THEN Scale \div FirstRank(i) ELSE 0],
                           DOMAIN m_rankings),
                   Scale * Len(m_rankings))

\* C15 witness: the rankings [[p2, p1], [p3]] with the ground truth
\* {0: {p1}, 1: {p3}} gave 0.75.
C15_Witness ==
    /\ MetricDone("calculate_mrr")
    /\ m_rankings = << <<"p2", "p1">>, <<"p3">> >>
    /\ m_ground_truth = {[key |-> "0", ids |-> {"p1"}], [key |-> "1", ids |-> {"p3"}]}
    /\ IsFraction(m_out, 3, 4)

\* C16: calculate_precision_at_k returns the mean over all rankings of the
\* number of relevant ids among the first k entries divided by k, also for a
\* ranking shorter than k, and the value lies in [0, 1].
C16_PrecisionAtK ==
    MetricDone("calculate_precision_at_k") =>
        /\ InUnitInterval(m_out)
        /\ m_rankings # <<>> =>
              IsFraction(m_out,
                         SumOver([i \in DOMAIN m_rankings |-> RelevantInTopK(i)],
                                 DOMAIN m_rankings),
                         m_k * Len(m_rankings))

\* C16 witness: a single ranking of one entry, relevant, cut at k = 2, has
\* precision 1/2.
C16_Witness ==
    /\ MetricDone("calculate_precision_at_k")
    /\ m_k = 2
    /\ Len(m_rankings) = 1
    /\ Len(m_rankings[1]) = 1
    /\ HasRelevant(1)
    /\ IsFraction(m_out, 1, 2)

\* the rankings that have a non-empty ground-truth set
WithGroundTruth == {i \in DOMAIN m_rankings : Relevant(i) # {}}

WithHit == {i \in DOMAIN m_rankings : HasRelevant(i)}

\* C18: calculate_average_rank returns the mean rank of the first relevant id
\* over the rankings that hold one, and the infinite sentinel exactly when no
\* ranking holds one, the empty list of rankings included.
C18_AverageRank ==
    MetricDone("calculate_average_rank") =>
        /\ m_out.inf <=> WithHit = {}
        /\ WithHit # {} =>
              IsFraction(m_out, SumOver([i \in WithHit |-> FirstRank(i)], WithHit),
                         Cardinality(WithHit))

\* C18 witness: two non-empty rankings with ground truth, neither holding a
\* relevant id, gave the infinite sentinel.
C18_Witness ==
    /\ MetricDone("calculate_average_rank")
    /\ Len(m_rankings) = 2
    /\ \A i \in DOMAIN m_rankings : m_rankings[i] # <<>> /\ Relevant(i) # {}
    /\ WithHit = {}
    /\ m_out.inf

\* the queries that have an expected category
WithExpectedCategory == {i \in DOMAIN m_rankings : m_query_categories[i] # ""}

\* the queries whose top result is of the expected category
TopCategoryMatches ==
    {i \in WithExpectedCategory :
        /\ m_rankings[i] # <<>>
        /\ CategoryOf(ProductCategories, m_rankings[i][1])
             = [given |-> TRUE, name |-> m_query_categories[i]]}

\* C19 as stated: calculate_category_accuracy returns the number of queries
\* whose top result is of the expected category divided by the number of
\* queries that have an expected category, a query with an expected category
\* and an empty ranking counting as a miss.
C19_CategoryAccuracy ==
    (MetricDone("calculate_category_accuracy") /\ WithExpectedCategory # {}) =>
        IsFraction(m_out, Cardinality(TopCategoryMatches), Cardinality(WithExpectedCategory))

-----------------------------------------------------------------------------
(* Properties of the evaluation run *)

\* the queries whose execution raised
FailedQueries == {i \in DOMAIN e_executed : e_executed[i].raised}

\* the ranking of each executed query, empty for a query that failed
RankingsOfRun ==
    [i \in DOMAIN e_executed |->
        IF e_executed[i].raised THEN <<>> ELSE e_executed[i].ranked_ids]

\* C20: a query whose execution fails (image file missing, unknown type,
\* retrieval failure) does not end the run: the failure is recorded for that
\* query with its message, the queries behind it are executed, the failed query
\* counts as an empty ranking in the overall metrics, and total_errors is the
\* number of failed queries.
C20_FailuresRecorded ==
    /\ e_pc \in {"unused", "load", "execute", "done"}
    /\ \A i \in FailedQueries :
          /\ e_per_query_results[i].has_error
          /\ e_per_query_results[i].error = e_executed[i].message
          /\ e_per_query_results[i].query_id = e_queries[i].query_id
          /\ e_all_rankings[i] = <<>>
    /\ e_pc = "done" =>
          /\ Len(e_executed) = Len(e_queries)
          /\ Len(e_per_query_results) = Len(e_queries)
          /\ e_report.summary.total_errors = Cardinality(FailedQueries)
          /\ e_report.overall_metrics = calculate_all(RankingsOfRun, GroundTruthFor(e_queries))

\* C20 witness: the image of the first of two queries was missing; the second
\* query was executed and found its product, and the report counts one error.
C20_Witness ==
    /\ e_pc = "done"
    /\ Len(e_queries) = 2
    /\ FailedQueries = {1}
    /\ e_per_query_results[1].error = "Image not found"
    /\ e_per_query_results[2].correct
    /\ e_report.summary.total_errors = 1
    /\ IsFraction(e_report.overall_metrics.mrr, 1, 2)

\* the stages of a run, in their order
StageOf(p) == CASE p = "load" -> 1 [] p = "execute" -> 2 [] p = "done" -> 3 [] OTHER -> 0

IsPrefix(s, t) == Len(s) <= Len(t) /\ \A i \in DOMAIN s : s[i] = t[i]

\* C25: a run goes through Load, Execute, Report in that order and never back;
\* the queries are executed one at a time in the order of the benchmark, each
\* exactly once; the metrics are computed only once the last query has been
\* executed; and every run reaches Report, whichever queries fail.
C25_StagesInOrder ==
    /\ [][/\ StageOf(e_pc') >= StageOf(e_pc)
          /\ StageOf(e_pc') <= StageOf(e_pc) + 1
          /\ e_queries' # e_queries => e_pc = "load"
          /\ e_executed' # e_executed =>
                /\ e_pc = "execute" /\ e_pc' = "execute"
                /\ Len(e_executed') = Len(e_executed) + 1
                /\ IsPrefix(e_executed, e_executed')
                /\ Len(e_executed') <= Len(e_queries)
          /\ e_report' # e_report =>
                /\ e_pc = "execute" /\ e_pc' = "done"
                /\ Len(e_executed) = Len(e_queries)]_vars
    /\ [](e_pc \in {"load", "execute", "done"})
    /\ [](e_pc = "done" => e_report.given /\ Len(e_executed) = Len(e_queries))
    /\ [](e_pc # "done" => ~e_report.given)
    /\ <>(e_pc = "done")

\* C25 witness: a run of two queries reached Report after its first query had
\* returned a ranking and its second had failed.
C25_Witness ==
    /\ e_pc = "done"
    /\ e_report.given
    /\ Len(e_queries) = 2
    /\ FailedQueries = {2}
    /\ e_executed[1].ranked_ids # <<>>
    /\ e_report.num_queries = 2

\* the positions in the benchmark of the queries of one type
IndicesOfType(t) ==
    SelectSeq([i \in 1..Len(e_queries) |-> i], LAMBDA i : e_queries[i].type = t)

\* C27 as stated: the rankings scored for a type are index-aligned with the
\* ground truth of that type: the i-th ranking of the type is the ranking of the
\* i-th benchmark query of the type, a failed query counting as an empty ranking.
C27_TypeRankingsAligned ==
    e_pc = "done" =>
        \A t \in QueryTypes :
            \A i \in DOMAIN e_by_type[t] :
                /\ i \in DOMAIN IndicesOfType(t)
                /\ e_by_type[t][i] = RankingsOfRun[IndicesOfType(t)[i]]

-----------------------------------------------------------------------------
(* Properties of the service accessors *)

HandleKinds == {"model", "mongo_client", "qdrant_client"}

\* the handles of one kind that callers have obtained
HandlesGot(kind) ==
    UNION {{h_got[c][i].handles[kind] : i \in DOMAIN h_got[c]} : c \in DOMAIN h_got} \ {0}

\* C24 as stated: the embedding model, the product store client and the vector
\* index client are each constructed at most once in a process, and all callers
\* of the accessors obtain the same handle of each.
C24_BuiltOnce ==
    \A kind \in HandleKinds :
        /\ h_built[kind] <= 1
        /\ Cardinality(HandlesGot(kind)) <= 1

-----------------------------------------------------------------------------
(* Properties of the comparison with the baseline *)

Compared == c_pc = "done" /\ c_exists

\* k * x, exactly
Times(k, x) == [neg |-> x.neg, m |-> BMul(BitsOf(k), x.m), e |-> x.e]

\* high - low is more than 5% of base, in exact arithmetic: 20 * (high - low) > base
ExceedsFivePercent(high, low, base) ==
    LET left == Times(20, high)
        right == Aligned(Times(20, low), base)
    IN  MagLess([neg |-> FALSE, m |-> BAdd(right.x, right.y), e |-> right.e], left)

\* C21: with a baseline value b and a current value c, a metric is flagged as a
\* regression iff b - c exceeds 5% of b and as an improvement iff c - b exceeds
\* 5% of b, and is neutral otherwise, a change of exactly 5% included; each
\* metric is classified on its own, so the regressions are exactly the metrics
\* that dropped by more than 5%.
C21_FivePercentRule ==
    Compared =>
        /\ \A mt \in CompareMetrics :
              LET b == c_baseline[mt]
                  c == c_current[mt]
              IN  /\ c_status[mt] = "REGRESSION" <=> ExceedsFivePercent(b, c, b)
                  /\ c_status[mt] = "IMPROVED" <=> ExceedsFivePercent(c, b, b)
                  /\ c_status[mt] \in {"REGRESSION", "IMPROVED", "OK"}
        /\ c_regressions =
              {mt \in CompareMetrics :
                  ExceedsFivePercent(c_baseline[mt], c_current[mt], c_baseline[mt])}

\* C21 witness: MRR went from 0.8 to 0.7 and the average rank from 20 to 19,
\* a change of exactly 5%: MRR alone is flagged.
C21_Witness ==
    /\ Compared
    /\ c_baseline["mrr"] = FloatOf(4, 5)
    /\ c_current["mrr"] = FloatOf(7, 10)
    /\ c_baseline["average_rank"] = FloatOf(20, 1)
    /\ c_current["average_rank"] = FloatOf(19, 1)
    /\ c_status["mrr"] = "REGRESSION"
    /\ c_status["average_rank"] = "OK"
    /\ c_regressions = {"mrr"}

\* C22 as stated: the comparison reports fail iff some metric was flagged as a
\* regression and pass iff none was, and every comparison ends with one of the
\* two.
C22_PassOrFail ==
    c_pc = "done" =>
        /\ c_return = "False" <=> c_regressions # {}
        /\ c_return = "True" <=> c_regressions = {}
        /\ c_return \in {"True", "False"}

\* C22, amended: a comparison against a baseline file that exists reports fail
\* iff some metric was flagged as a regression and pass iff none was; when no
\* baseline file exists it reports neither, flags nothing and returns None.
C22_PassOrFailGivenBaseline ==
    c_pc = "done" =>
        IF c_exists
        THEN /\ c_return = "False" <=> c_regressions # {}
             /\ c_return = "True" <=> c_regressions = {}
             /\ c_return \in {"True", "False"}
        ELSE c_return = "None" /\ c_regressions = {}

\* C22 witness: a comparison in which the baseline exists, MRR dropped from 0.8
\* to 0.7 and the call returned False.
C22_Witness ==
    /\ Compared
    /\ c_baseline["mrr"] = FloatOf(4, 5)
    /\ c_current["mrr"] = FloatOf(7, 10)
    /\ c_baseline["average_rank"] = c_current["average_rank"]
    /\ c_regressions = {"mrr"}
    /\ c_return = "False"

\* C28 as stated: a metric is flagged as a regression only when the current
\* value is worse in the metric's own direction: an average rank below the
\* baseline is never a regression, and one more than 5% above it is never an
\* improvement; MRR is a regression only when it dropped.
C28_DirectionOfQuality ==
    Compared =>
        LET b == c_baseline["average_rank"]
            c == c_current["average_rank"]
        IN  /\ FLess(c, b) => c_status["average_rank"] # "REGRESSION"
            /\ ExceedsFivePercent(c, b, b) => c_status["average_rank"] # "IMPROVED"
            /\ c_status["mrr"] = "REGRESSION" => FLess(c_current["mrr"], c_baseline["mrr"])

====
